---------------------------- MODULE Spec2Model ----------------------------
(***************************************************************************)
(* Model of the PTH writer of Driver/CacheTokens.cpp: the byte sink and    *)
(* its little-endian emit helpers, the on-disk chained hash table          *)
(* generator, the identifier interner, the spelling pool, the per-file     *)
(* token lexing loop with its preprocessor-conditional table, and the      *)
(* assembly of the artifact by GeneratePTH.                                *)
(*                                                                         *)
(* Conventions.  A byte string (a name, a path, a spelling) is a sequence  *)
(* of byte values.  The sink is a record [buf, pos, abort]: the bytes of   *)
(* the file, the write position (tell), and whether an assert of the       *)
(* writer has failed (the build modelled is the one with asserts on; an    *)
(* aborted process writes nothing more).  A 32-bit value that can exceed   *)
(* 2^31 (a hash, a token's first word) is kept as its two 16-bit halves    *)
(* [hi, lo], so that the arithmetic is the code's arithmetic modulo 2^32.  *)
(***************************************************************************)
EXTENDS Integers, Sequences, FiniteSets, TLC

VARIABLES
  pc,          \* position of the running operation
  Out,         \* llvm::raw_fd_ostream& Out: [buf, pos, abort]
  HT,          \* an OnDiskChainedHashTableGenerator under construction
  IIDMap,      \* PTHIdKey array the identifier trait's keys point into
  TableOff,    \* value returned by the last OnDiskChainedHashTableGenerator::Emit
  htSeed,      \* which family of keys the caller of insert passes
  htN,         \* number of calls made to the public insert
  IM,          \* PTHWriter::IM, IdentifierInfo* -> persistent ID
  idcount,     \* PTHWriter::idcount
  CachedStrs,  \* PTHWriter::CachedStrs, spelling -> OffsetOpt
  CurStrOffset,\* PTHWriter::CurStrOffset
  StrEntries,  \* PTHWriter::StrEntries, the pool entries in insertion order
  emitted,     \* history: the tokens passed to EmitToken, in order
  resolved,    \* history: the handles passed to ResolveID, in order
  ret,         \* value returned by the last direct call of ResolveID
  PM,          \* PTHWriter::PM, the file map under construction
  GP,          \* the activation of GeneratePTH: the SourceManager it reads (seed,
               \* n files), its position I in the files, its locals PrologueOffset,
               \* IdTableOff, SpellingOff and FileTableOff, the part of IM that
               \* EmitIdentifierTable has still to visit (todo), and the history
               \* of the files cached with the PTHEntry of each (cached)
  LT           \* the activation of LexTokens: its lexer L, its locals Tok, PPCond,
               \* PPStartCond, ParsingPreprocessorDirective and off, and the
               \* PTHEntry it returns (result)

htVars == <<HT, IIDMap, TableOff, htSeed, htN>>

genVars == <<PM, GP>>

writerVars == <<IM, idcount, CachedStrs, CurStrOffset, StrEntries, emitted, resolved>>

vars == <<pc, Out, HT, IIDMap, TableOff, htSeed, htN,
          IM, idcount, CachedStrs, CurStrOffset, StrEntries, emitted, resolved, ret, PM, GP, LT>>

---------------------------------------------------------------------------
(* Bit operations on naturals below 2^31.                                  *)

RECURSIVE BitAnd(_, _)
BitAnd(a, b) ==
  IF a = 0 \/ b = 0 THEN 0
  ELSE (a % 2) * (b % 2) + 2 * BitAnd(a \div 2, b \div 2)

RECURSIVE BitOr(_, _)
BitOr(a, b) ==
  IF a = 0 THEN b
  ELSE IF b = 0 THEN a
  ELSE (IF a % 2 = 1 \/ b % 2 = 1 THEN 1 ELSE 0) + 2 * BitOr(a \div 2, b \div 2)

\* a & ~m
RECURSIVE BitClear(_, _)
BitClear(a, m) ==
  IF a = 0 THEN 0
  ELSE (IF a % 2 = 1 /\ m % 2 = 0 THEN 1 ELSE 0) + 2 * BitClear(a \div 2, m \div 2)

\* The n low bytes of V, least significant first: (unsigned char)(V >> 8k).
RECURSIVE LEBytes(_, _)
LEBytes(V, n) ==
  IF n = 0 THEN <<>> ELSE <<V % 256>> \o LEBytes(V \div 256, n - 1)

\* A uint32_t as its halves, and back (for values below 2^31).
Word(V) == [hi |-> (V \div 65536) % 65536, lo |-> V % 65536]

WordBytes(w) == LEBytes(w.lo, 2) \o LEBytes(w.hi, 2)

\* w & m for a 32-bit w and a mask m
AndMask(w, m) == BitAnd(w.lo, m % 65536) + 65536 * BitAnd(w.hi, m \div 65536)

RECURSIVE Zeros(_)
Zeros(n) == IF n = 0 THEN <<>> ELSE <<0>> \o Zeros(n - 1)

---------------------------------------------------------------------------
(* The byte sink.                                                          *)

NewStream == [buf |-> <<>>, pos |-> 0, abort |-> FALSE]

tell(o) == o.pos

\* Out << bytes at the write position: over the bytes already there, then
\* past the end.  Nothing is written once an assert has failed.
WriteBytes(o, bs) ==
  IF o.abort \/ bs = <<>> THEN o
  ELSE IF o.pos = Len(o.buf)
       THEN [o EXCEPT !.buf = @ \o bs, !.pos = @ + Len(bs)]
       ELSE [o EXCEPT
               !.buf = [i \in 1..(IF o.pos + Len(bs) > Len(@) THEN o.pos + Len(bs) ELSE Len(@)) |->
                          IF i > o.pos /\ i <= o.pos + Len(bs) THEN bs[i - o.pos] ELSE @[i]],
               !.pos = @ + Len(bs)]

\* the seek is left out: the sink stays where it is
seek_stay(o, off) == o

seek(o, off) == IF o.abort THEN o ELSE [o EXCEPT !.pos = off]

AssertThat(o, cond) == IF cond THEN o ELSE [o EXCEPT !.abort = TRUE]

Emit8(o, V) == WriteBytes(o, LEBytes(V, 1))

Emit16(o, V) == AssertThat(WriteBytes(o, LEBytes(V, 2)), V \div 65536 = 0)

Emit32(o, V) == WriteBytes(o, LEBytes(V, 4))

\* Emit32 of a value kept as halves
Emit32W(o, w) == WriteBytes(o, WordBytes(w))

Emit64(o, V) == WriteBytes(o, LEBytes(V, 8))

\* the offset rounded up from off + A: A bytes of padding at a boundary
PadCount_up(off, A) == BitClear(off + A, A - 1) - off

\* no padding
PadCount_none(off, A) == 0

PadCount(off, A) == BitClear(off + A - 1, A - 1) - off

Pad(o, A) == WriteBytes(o, Zeros(PadCount(tell(o), A)))

---------------------------------------------------------------------------
(* Bernstein hash of a NUL-terminated string, in unsigned 32-bit           *)
(* arithmetic.                                                             *)

HashStep(R, c) ==
  LET l == R.lo * 33 + c
  IN  [hi |-> (R.hi * 33 + l \div 65536) % 65536, lo |-> l % 65536]

RECURSIVE HashLoop(_, _, _)
HashLoop(R, x, i) ==
  IF i > Len(x) THEN R ELSE HashLoop(HashStep(R, x[i]), x, i + 1)

HashFinal(R) ==
  LET S == [hi |-> R.hi \div 32, lo |-> R.lo \div 32 + (R.hi % 32) * 2048]
      l == R.lo + S.lo
  IN  [hi |-> (R.hi + S.hi + l \div 65536) % 65536, lo |-> l % 65536]

BernsteinHash(x) == HashFinal(HashLoop([hi |-> 0, lo |-> 0], x, 1))

---------------------------------------------------------------------------
(* PTH-specific keys and data, and the two traits (the Info parameter of   *)
(* the hash table generator).                                              *)

IsFE == 1
IsDE == 2
IsNoExist == 0

FileInfo == "FileEntryPTHEntryInfo"
IdInfo == "PTHIdentifierTableTrait"

\* the two offsets taken the other way round
PTHEntry_swapped(td, ppcd) == [TokenData |-> ppcd, PPCondData |-> td]

PTHEntry(td, ppcd) == [TokenData |-> td, PPCondData |-> ppcd]

\* PTHEntryKeyVariant built from a FileEntry, a DirectoryEntry, a path
KeyOfFile(fe) ==
  [Kind |-> IsFE, Path |-> fe.Name, Inode |-> fe.Inode, Device |-> fe.Device,
   FileMode |-> fe.FileMode, ModificationTime |-> fe.ModificationTime, Size |-> fe.Size]

KeyOfDir(name) ==
  [Kind |-> IsDE, Path |-> name, Inode |-> 0, Device |-> 0, FileMode |-> 0,
   ModificationTime |-> 0, Size |-> 0]

KeyOfPath(name) ==
  [Kind |-> IsNoExist, Path |-> name, Inode |-> 0, Device |-> 0, FileMode |-> 0,
   ModificationTime |-> 0, Size |-> 0]

getFile(V) == V.Kind = IsFE

getCString(V) == V.Path

getKind(V) == V.Kind

VariantEmitData(o, V) ==
  IF V.Kind = IsFE
  THEN Emit64(Emit64(Emit16(Emit32(Emit32(o, V.Inode), V.Device), V.FileMode),
                     V.ModificationTime), V.Size)
  ELSE o

\* the length without the 8 bytes of the size
getRepresentationLength_short(V) == IF V.Kind = IsFE THEN 4 + 4 + 2 + 8 ELSE 0

getRepresentationLength(V) == IF V.Kind = IsFE THEN 4 + 4 + 2 + 8 + 8 ELSE 0

strlen(s) == Len(s)

\* The bytes of a C string with its terminating NUL
CStr(s) == s \o <<0>>

\* Out.write(p, n) of the C string s: its first n bytes, NUL included
WriteCStr(o, s, n) == WriteBytes(o, SubSeq(CStr(s), 1, n))

\* Info::ComputeHash; mem is the PTHIdKey array an identifier key points into
ComputeHash(Info, k, mem) ==
  IF Info = FileInfo THEN BernsteinHash(getCString(k)) ELSE BernsteinHash(mem[k].II)

FileKeyLen(V) == strlen(getCString(V)) + 1 + 1

FileDataLen(V) == getRepresentationLength(V) + (IF getFile(V) THEN 4 + 4 ELSE 0)

IdKeyLen(name) == strlen(name) + 1

IdDataLen == 4

\* Info::EmitKeyDataLength: writes the lengths and returns them
EmitKeyDataLength(Info, o, k, d, mem) ==
  IF Info = FileInfo
  THEN [out |-> Emit8(Emit16(o, FileKeyLen(k)), FileDataLen(k)),
        first |-> FileKeyLen(k), second |-> FileDataLen(k)]
  ELSE [out |-> Emit16(o, IdKeyLen(mem[k].II)),
        first |-> IdKeyLen(mem[k].II), second |-> IdDataLen]

\* the path written without its terminating NUL
FileEmitKey_noNul(o, V, n) == WriteCStr(Emit8(o, getKind(V)), getCString(V), n - 2)

\* FileEntryPTHEntryInfo::EmitKey
FileEmitKey(o, V, n) == WriteCStr(Emit8(o, getKind(V)), getCString(V), n - 1)

\* an offset taken at the length field of the key instead of at its bytes
IdEmitKeyOffset_atLength(o) == tell(o) - 2

\* PTHIdentifierTableTrait::EmitKey: key->FileOffset = Out.tell(), then the name
IdEmitKeyOffset(o) == tell(o)

\* Info::EmitKey: [out, mem]
EmitKey(Info, o, k, n, mem) ==
  IF Info = FileInfo
  THEN [out |-> FileEmitKey(o, k, n), mem |-> mem]
  ELSE [out |-> WriteCStr(o, mem[k].II, n),
        mem |-> IF o.abort THEN mem
                ELSE [mem EXCEPT ![k] = [@ EXCEPT !.FileOffset = IdEmitKeyOffset(o)]]]

\* Info::EmitData
EmitData(Info, o, k, d, m) ==
  IF Info = FileInfo
  THEN VariantEmitData(IF getFile(k)
                       THEN Emit32(Emit32(o, d.TokenData), d.PPCondData)
                       ELSE o, k)
  ELSE Emit32(o, d)

---------------------------------------------------------------------------
(* OnDiskChainedHashTableGenerator<Info>.  A table is a record             *)
(* [Info, NumBuckets, NumEntries, Buckets]; Buckets maps 0..NumBuckets-1   *)
(* to [off, head, length], head being the linked list from its head.       *)

InitialNumBuckets == 64

\* one element of calloc'ed bucket storage
ZeroBucket == [off |-> 0, head |-> <<>>, length |-> 0]

NewTable(Info) ==
  [Info |-> Info, NumEntries |-> 0, NumBuckets |-> InitialNumBuckets,
   Buckets |-> [i \in 0..(InitialNumBuckets - 1) |-> ZeroBucket]]

Item(Info, k, d, mem) == [key |-> k, data |-> d, hash |-> ComputeHash(Info, k, mem)]

BucketIndex(hash, size) == AndMask(hash, size - 1)

\* E linked at the tail of the list
LinkItem_atTail(E, head) == head \o <<E>>

\* B.head after E is linked into bucket B
LinkItem(E, head) == <<E>> \o head

\* private insert(Bucket* b, size_t size, Item* E)
insertItem(b, size, E) ==
  LET idx == BucketIndex(E.hash, size)
  IN  [b EXCEPT ![idx] = [off |-> @.off, head |-> LinkItem(E, @.head), length |-> @.length + 1]]

\* The loops below run over the index range lo..hi-1 in increasing order;
\* a range of more than one index is run as its two halves in turn, the
\* second half starting from the state the first half left (once an assert
\* has failed nothing more happens).

\* the inner loop of resize over one old bucket's list, from its head
RECURSIVE rehashList(_, _, _, _, _)
rehashList(nb, newsize, items, lo, hi) ==
  IF hi <= lo THEN nb
  ELSE IF hi = lo + 1 THEN insertItem(nb, newsize, items[lo])
  ELSE LET mid == (lo + hi) \div 2
           left == rehashList(nb, newsize, items, lo, mid)
       IN  IF DOMAIN left = {} THEN left ELSE rehashList(left, newsize, items, mid, hi)

\* the outer loop of resize over the old buckets, in index order
RECURSIVE rehashBuckets(_, _, _, _, _)
rehashBuckets(nb, newsize, T, lo, hi) ==
  IF hi <= lo THEN nb
  ELSE IF hi = lo + 1
       THEN rehashList(nb, newsize, T.Buckets[lo].head, 1, Len(T.Buckets[lo].head) + 1)
  ELSE LET mid == (lo + hi) \div 2
           left == rehashBuckets(nb, newsize, T, lo, mid)
       IN  IF DOMAIN left = {} THEN left ELSE rehashBuckets(left, newsize, T, mid, hi)

\* a resize that places the items by the old number of buckets
RehashSize_old(oldsize, newsize) == oldsize

\* the size resize passes to the private insert: insert(newBuckets, NewSize, E)
RehashSize(oldsize, newsize) == newsize

resize(T, newsize) ==
  [T EXCEPT !.NumBuckets = newsize,
            !.Buckets = rehashBuckets([i \in 0..(newsize - 1) |-> ZeroBucket],
                                      RehashSize(T.NumBuckets, newsize), T,
                                      0, T.NumBuckets)]

\* a resize test that lets the table fill to exactly three quarters
NeedsResize_strict(NumEntries, NumBuckets) == 4 * NumEntries > 3 * NumBuckets

NeedsResize(NumEntries, NumBuckets) == 4 * NumEntries >= 3 * NumBuckets

\* public insert(key, data)
insert(T, key, data, mem) ==
  LET T1 == [T EXCEPT !.NumEntries = @ + 1]
      T2 == IF NeedsResize(T1.NumEntries, T1.NumBuckets)
            THEN resize(T1, T1.NumBuckets * 2) ELSE T1
  IN  [T2 EXCEPT !.Buckets = insertItem(@, T2.NumBuckets, Item(T.Info, key, data, mem))]

\* One item of a bucket, written by Emit; st is [out, mem]
EmitItem(Info, st, I) ==
  LET o1 == Emit32W(st.out, I.hash)
      ln == EmitKeyDataLength(Info, o1, I.key, I.data, st.mem)
      ek == EmitKey(Info, ln.out, I.key, ln.first, st.mem)
  IN  [out |-> EmitData(Info, ek.out, I.key, I.data, ln.second), mem |-> ek.mem]

RECURSIVE EmitItems(_, _, _, _, _)
EmitItems(Info, st, items, lo, hi) ==
  IF hi <= lo THEN st
  ELSE IF hi = lo + 1 THEN EmitItem(Info, st, items[lo])
  ELSE LET mid == (lo + hi) \div 2
           left == EmitItems(Info, st, items, lo, mid)
       IN  IF left.out.abort THEN left ELSE EmitItems(Info, left, items, mid, hi)

\* the offset taken once the length of the bucket is written
PayloadOff_afterLength(o) == tell(o) + 2

\* B.off = out.tell()
PayloadOff(o) == tell(o)

\* One round of the payload loop of Emit; st is [out, mem, Buckets]
EmitBucket(T, st, i) ==
  IF st.Buckets[i].head = <<>> THEN st
  ELSE LET B  == st.Buckets[i]
           o1 == Emit16(st.out, B.length)
           it == EmitItems(T.Info, [out |-> o1, mem |-> st.mem], B.head, 1, Len(B.head) + 1)
       IN  [out |-> it.out, mem |-> it.mem,
            Buckets |-> [st.Buckets EXCEPT ![i].off = PayloadOff(st.out)]]

RECURSIVE EmitPayload(_, _, _, _)
EmitPayload(T, st, lo, hi) ==
  IF hi <= lo THEN st
  ELSE IF hi = lo + 1 THEN EmitBucket(T, st, lo)
  ELSE LET mid == (lo + hi) \div 2
           left == EmitPayload(T, st, lo, mid)
       IN  IF left.out.abort THEN left ELSE EmitPayload(T, left, mid, hi)

RECURSIVE BucketOffBytes(_, _, _)
BucketOffBytes(Buckets, lo, hi) ==
  IF hi <= lo THEN <<>>
  ELSE IF hi = lo + 1 THEN LEBytes(Buckets[lo].off, 4)
  ELSE LET mid == (lo + hi) \div 2
       IN  BucketOffBytes(Buckets, lo, mid) \o BucketOffBytes(Buckets, mid, hi)

\* Offset Emit(out): [out, mem, T, TableOff]
Emit(T, o, mem) ==
  LET st == EmitPayload(T, [out |-> o, mem |-> mem, Buckets |-> T.Buckets], 0, T.NumBuckets)
      o1 == Pad(st.out, 4)
      o2 == Emit32(Emit32(o1, T.NumBuckets), T.NumEntries)
      o3 == WriteBytes(o2, BucketOffBytes(st.Buckets, 0, T.NumBuckets))
  IN  [out |-> o3, mem |-> st.mem, T |-> [T EXCEPT !.Buckets = st.Buckets],
       TableOff |-> tell(o1)]

---------------------------------------------------------------------------
(* Tokens, as the lexer and the preprocessor report them: Kind, Flags and  *)
(* Length are the values getKind, getFlags and getLength return, II the    *)
(* identifier handle (NullII when there is none), Spelling what            *)
(* PP.getSpelling returns, FileOffset what the source manager returns for  *)
(* the token's location.                                                   *)

tok ==
  [unknown |-> 0, eof |-> 1, eom |-> 2, comment |-> 3, identifier |-> 4,
   numeric_constant |-> 5, char_constant |-> 6, string_literal |-> 7,
   wide_string_literal |-> 8, angle_string_literal |-> 9, semi |-> 50, hash |-> 60]

StartOfLine == 1

NullII == <<>>

isLiteral(T) ==
  T.Kind \in {tok.numeric_constant, tok.char_constant, tok.string_literal,
              tok.wide_string_literal, tok.angle_string_literal}

isAtStartOfLine(T) == BitAnd(T.Flags, StartOfLine) # 0

---------------------------------------------------------------------------
(* PTHWriter: the interner, the spelling pool and EmitToken.  The writer   *)
(* is handled as the record W of its members and its sink.                 *)

Writer ==
  [Out |-> Out, IM |-> IM, idcount |-> idcount, CachedStrs |-> CachedStrs,
   CurStrOffset |-> CurStrOffset, StrEntries |-> StrEntries,
   emitted |-> emitted, resolved |-> resolved]

SetWriter(W) ==
  /\ Out' = W.Out
  /\ IM' = W.IM
  /\ idcount' = W.idcount
  /\ CachedStrs' = W.CachedStrs
  /\ CurStrOffset' = W.CurStrOffset
  /\ StrEntries' = W.StrEntries
  /\ emitted' = W.emitted
  /\ resolved' = W.resolved

\* PTHWriter(out, pp): the members after construction
NewWriter(o) ==
  [Out |-> o, IM |-> <<>>, idcount |-> 0, CachedStrs |-> <<>>, CurStrOffset |-> 0,
   StrEntries |-> <<>>, emitted |-> <<>>, resolved |-> <<>>]

\* the members of a writer that is not running (its sink apart)
SetIdleWriter ==
  /\ IM = <<>>
  /\ idcount = 0
  /\ CachedStrs = <<>>
  /\ CurStrOffset = 0
  /\ StrEntries = <<>>
  /\ emitted = <<>>
  /\ resolved = <<>>
  /\ ret = [arg |-> NullII, val |-> 0]

\* f with x bound to v
MapPut(f, x, v) == [y \in DOMAIN f \cup {x} |-> IF y = x THEN v ELSE f[y]]

\* an interner that numbers from the old count (idcount++ for ++idcount)
NextID_post(n) == n

\* the ID a new handle gets: ++idcount
NextID(n) == n + 1

\* ResolveID(II): [W, ret]
ResolveID(W, II) ==
  LET W0 == [W EXCEPT !.resolved = Append(@, II)]
  IN  IF II = NullII THEN [W |-> W0, ret |-> 0]
      ELSE IF II \notin DOMAIN W.IM
           THEN LET n == NextID(W.idcount)
                IN  [W |-> [W0 EXCEPT !.idcount = n, !.IM = MapPut(@, II, n)], ret |-> n]
           ELSE [W |-> W0, ret |-> W.IM[II]]

\* a first word with the length packed above the kind and the flags last
Word0_swapped(Kind, Flags, Length) ==
  LET x == BitOr(Kind, (Length % 65536) * 256)
  IN  [lo |-> x % 65536, hi |-> BitOr(x \div 65536, (Flags * 256) % 65536) % 65536]

\* kind | flags << 8 | length << 16 as a uint32_t
Word0(Kind, Flags, Length) ==
  LET x == BitOr(Kind, Flags * 256)
  IN  [lo |-> x % 65536, hi |-> BitOr(x \div 65536, Length % 65536) % 65536]

\* an advance that forgets the terminating NUL
PoolAdvance_noNul(spelling) == Len(spelling)

\* what a new spelling adds to CurStrOffset
PoolAdvance(spelling) == Len(spelling) + 1

\* The literal branch of EmitToken: the pool entry of the spelling, created
\* and given its offset when it is new; [W, off]
CacheSpelling(W, spelling) ==
  LET C == IF spelling \in DOMAIN W.CachedStrs THEN W.CachedStrs
           ELSE MapPut(W.CachedStrs, spelling, [valid |-> FALSE, off |-> 0])
  IN  IF ~C[spelling].valid
      THEN [W |-> [W EXCEPT !.CachedStrs = MapPut(C, spelling,
                                                  [valid |-> TRUE, off |-> W.CurStrOffset]),
                            !.StrEntries = Append(@, spelling),
                            !.CurStrOffset = @ + PoolAdvance(spelling)],
            off |-> W.CurStrOffset]
      ELSE [W |-> [W EXCEPT !.CachedStrs = C], off |-> C[spelling].off]

\* T as the history keeps it: with the sink offset At of its record
Logged(T, at) == [f \in DOMAIN T \cup {"At"} |-> IF f = "At" THEN at ELSE T[f]]

EmitToken(W, T) ==
  LET W1 == [W EXCEPT !.Out = Emit32W(@, Word0(T.Kind, T.Flags, T.Length)),
                      !.emitted = IF W.Out.abort THEN @ ELSE Append(@, Logged(T, tell(W.Out)))]
      W2 == IF isLiteral(T)
            THEN LET c == CacheSpelling(W1, T.Spelling)
                 IN  [c.W EXCEPT !.Out = Emit32(@, c.off)]
            ELSE LET r == ResolveID(W1, T.II)
                 IN  [r.W EXCEPT !.Out = Emit32(@, r.ret)]
  IN  [W2 EXCEPT !.Out = Emit32(@, T.FileOffset)]

---------------------------------------------------------------------------
(* The raw lexer of one file, as LexTokens uses it.  L.lines holds the     *)
(* tokens not yet lexed, line by line (no line is empty); the end of the   *)
(* file yields eof tokens.  A raw token has no identifier handle; its      *)
(* ghost field Line is the number of the line it stands on.                *)

\* the file offset of the first character of line n
LineStart(n) == 32 * (n - 1)

EofToken(L) ==
  [Kind |-> tok.eof, Flags |-> 0, Length |-> 0, II |-> NullII, Spelling |-> <<>>,
   FileOffset |-> LineStart(Len(L.fed) + 1), Line |-> Len(L.fed) + 1]

\* the end-of-directive token the lexer forms at the end of a directive's line
EomToken(L) ==
  LET n == IF L.lines = <<>> THEN Len(L.fed) ELSE Head(Head(L.lines)).Line - 1
  IN  [Kind |-> tok.eom, Flags |-> 0, Length |-> 0, II |-> NullII, Spelling |-> <<>>,
       FileOffset |-> LineStart(n + 1) - 1, Line |-> n]

PopToken(L) ==
  [L EXCEPT !.lines = IF Len(Head(@)) = 1 THEN Tail(@) ELSE <<Tail(Head(@))>> \o Tail(@)]

\* L.LexFromRawLexer(Tok): [L, Tok]
LexFromRawLexer(L) ==
  IF L.lines = <<>> THEN [L |-> L, Tok |-> EofToken(L)]
  ELSE [L |-> PopToken(L), Tok |-> Head(Head(L.lines))]

\* L.LexIncludeFilename(Tok) with the lexer in directive mode: the next token
\* of the line, or an end-of-directive token when the line has none
LexIncludeFilename(L) ==
  IF L.lines = <<>> \/ isAtStartOfLine(Head(Head(L.lines)))
  THEN [L |-> L, Tok |-> EomToken(L)]
  ELSE LexFromRawLexer(L)

\* PP.LookUpIdentifierInfo(Tok): the handle of the identifier spelled by Tok
LookUpIdentifierInfo(T) == T.Spelling

setIdentifierInfo(T, ii) == [T EXCEPT !.II = ii]

pp_if == <<105, 102>>
pp_ifdef == <<105, 102, 100, 101, 102>>
pp_ifndef == <<105, 102, 110, 100, 101, 102>>
pp_elif == <<101, 108, 105, 102>>
pp_else == <<101, 108, 115, 101>>
pp_endif == <<101, 110, 100, 105, 102>>
pp_include == <<105, 110, 99, 108, 117, 100, 101>>
pp_import == <<105, 109, 112, 111, 114, 116>>
pp_include_next == <<105, 110, 99, 108, 117, 100, 101, 95, 110, 101, 120, 116>>
pp_define == <<100, 101, 102, 105, 110, 101>>
pp_undef == <<117, 110, 100, 101, 102>>

\* II->getPPKeywordID(), by classes of the switch in LexTokens
getPPKeywordID(ii) ==
  IF ii \in {pp_include, pp_import, pp_include_next} THEN "include"
  ELSE IF ii \in {pp_if, pp_ifdef, pp_ifndef} THEN "if"
  ELSE IF ii = pp_endif THEN "endif"
  ELSE IF ii \in {pp_elif, pp_else} THEN "else"
  ELSE IF ii \in {pp_define, pp_undef} THEN "other"
  ELSE "pp_not_keyword"
---------------------------------------------------------------------------
(* PTHWriter::LexTokens.  Its activation is the record S of the writer W,  *)
(* the lexer L, the locals Tok, PPCond (entries [first, second]),          *)
(* PPStartCond, ParsingPreprocessorDirective and off, and the position pc: *)
(* "lex" at the top of the loop, "NextToken" at the label, "end" after the *)
(* loop, "done" once it has returned.  PPCond is indexed from 0 by the     *)
(* code, so entry i is PPCond[i + 1] here.                                 *)

EmitTok(S, T) == [S EXCEPT !.W = EmitToken(@, T)]

Check(S, cond) == [S EXCEPT !.W.Out = AssertThat(@, cond)]

Aborted(S) == S.W.Out.abort

Fetch(S) ==
  LET r == LexFromRawLexer(S.L) IN [S EXCEPT !.L = r.L, !.Tok = r.Tok]

Last(s) == s[Len(s)]

\* the stack is left as it is
PopBack_none(s) == s

PopBack(s) == SubSeq(s, 1, Len(s) - 1)

\* Tmp of lines 447-450
EomFor(T) ==
  [T EXCEPT !.Kind = tok.eom, !.Flags = BitClear(@, StartOfLine), !.II = NullII]

\* while (Tok.isNot(tok::eof))
LoopCond(S) == [S EXCEPT !.pc = IF S.Tok.Kind # tok.eof THEN "lex" ELSE "end"]

\* do L.LexFromRawLexer(Tok); while (!Tok.is(tok::eof) && !Tok.isAtStartOfLine())
RECURSIVE DiscardLine(_)
DiscardLine(S) ==
  LET S1 == Fetch(S)
  IN  IF S1.Tok.Kind # tok.eof /\ ~isAtStartOfLine(S1.Tok) THEN DiscardLine(S1) ELSE S1

\* the loop goes on from its head, lexing a token
GotoNextToken_relex(S) == [S EXCEPT !.pc = "lex"]

\* goto NextToken: the token in hand is the one to process
GotoNextToken(S) == [S EXCEPT !.pc = "NextToken"]

\* a backpatch that is off by one
PatchedTarget_next(index) == index + 1

\* the target written into the entry on top of PPStartCond
PatchedTarget(index) == index

\* lines 519-523 and 543-547: backpatch the entry on top of PPStartCond
Backpatch(S, index) ==
  LET S1 == Check(S, S.PPStartCond # <<>>)
      back == Last(S.PPStartCond)
      S2 == Check(S1, Len(S.PPCond) > back)
      S3 == Check(S2, S.PPCond[back + 1].second = 0)
  IN  IF Aborted(S1) THEN S1
      ELSE IF Aborted(S3) THEN S3
      ELSE [S3 EXCEPT !.PPCond[back + 1].second = PatchedTarget(index),
                      !.PPStartCond = PopBack(@)]

\* the switch on K, with Tok the directive's name and HashOff the offset of
\* the record of its '#'
DirectiveSwitch(S, K, HashOff) ==
  IF K = "include"
  THEN LET S1 == EmitTok(S, S.Tok)
           r == LexIncludeFilename(S1.L)
           S2 == Check([S1 EXCEPT !.L = r.L, !.Tok = r.Tok], ~isAtStartOfLine(r.Tok))
           S3 == IF S2.Tok.Kind = tok.identifier
                 THEN [S2 EXCEPT !.Tok = setIdentifierInfo(@, LookUpIdentifierInfo(@))]
                 ELSE S2
       IN  IF Aborted(S2) THEN S2 ELSE LoopCond(EmitTok(S3, S3.Tok))
  ELSE IF K = "if"
  THEN LET S1 == [S EXCEPT !.PPStartCond = Append(@, Len(S.PPCond)),
                           !.PPCond = Append(@, [first |-> HashOff, second |-> 0])]
       IN  LoopCond(EmitTok(S1, S1.Tok))
  ELSE IF K = "endif"
  THEN LET index == Len(S.PPCond)
           S1 == Backpatch(S, index)
           S2 == [S1 EXCEPT !.PPCond = Append(@, [first |-> HashOff, second |-> index])]
       IN  IF Aborted(S1) THEN S1
           ELSE GotoNextToken(DiscardLine(EmitTok(S2, S2.Tok)))
  ELSE IF K = "else"
  THEN LET index == Len(S.PPCond)
           S1 == Backpatch(S, index)
           S2 == [S1 EXCEPT !.PPCond = Append(@, [first |-> HashOff, second |-> 0]),
                            !.PPStartCond = Append(@, index)]
       IN  IF Aborted(S1) THEN S1 ELSE LoopCond(EmitTok(S2, S2.Tok))
  ELSE LoopCond(EmitTok(S, S.Tok))

\* the offset taken once the '#' is written
HashOffset_afterHash(o) == tell(o) + 12

\* Offset HashOff = (Offset) Out.tell()
HashOffset(o) == tell(o)

\* lines 461-554, Tok being a '#' at the start of a line
Directive(S) ==
  LET S0 == Check(S, ~S.ParsingPreprocessorDirective)
      HashOff == HashOffset(S0.W.Out)
      S1 == Fetch(EmitTok(S0, S0.Tok))
      S2 == Check(S1, ~isAtStartOfLine(S1.Tok))
      II == LookUpIdentifierInfo(S2.Tok)
      K == getPPKeywordID(II)
      S3 == Check([S2 EXCEPT !.Tok = setIdentifierInfo(@, II)], K # "pp_not_keyword")
  IN  IF Aborted(S0) THEN S0
      ELSE IF Aborted(S2) THEN S2
      ELSE IF S2.Tok.Kind # tok.identifier THEN LoopCond(EmitTok(S2, S2.Tok))
      ELSE IF Aborted(S3) THEN S3
      ELSE DirectiveSwitch([S3 EXCEPT !.ParsingPreprocessorDirective = TRUE], K, HashOff)

\* one pass of the loop body from the label NextToken (lines 439-558)
FromNextToken(S) ==
  LET S1 == IF (isAtStartOfLine(S.Tok) \/ S.Tok.Kind = tok.eof) /\ S.ParsingPreprocessorDirective
            THEN [EmitTok(S, EomFor(S.Tok)) EXCEPT !.ParsingPreprocessorDirective = FALSE]
            ELSE S
  IN  IF S1.Tok.Kind = tok.identifier
      THEN LET T == setIdentifierInfo(S1.Tok, LookUpIdentifierInfo(S1.Tok))
           IN  LoopCond(EmitTok([S1 EXCEPT !.Tok = T], T))
      ELSE IF S1.Tok.Kind = tok.hash /\ isAtStartOfLine(S1.Tok) THEN Directive(S1)
      ELSE LoopCond(EmitTok(S1, S1.Tok))

\* lines 427-435
LexTokensBegin(W, L) ==
  LET o == Pad(W.Out, 4)
  IN  [W |-> [W EXCEPT !.Out = o], L |-> L, Tok |-> EofToken(L), PPCond |-> <<>>,
       PPStartCond |-> <<>>, ParsingPreprocessorDirective |-> FALSE, off |-> tell(o),
       pc |-> "lex", result |-> PTHEntry(0, 0)]

\* x == i ? 0 : x
EmittedTarget(x, i) == IF x = i THEN 0 ELSE x

\* the loop of lines 568-575 from entry i on
RECURSIVE EmitPPCond(_, _, _, _)
EmitPPCond(o, PPCond, off, i) ==
  IF i = Len(PPCond) \/ o.abort THEN o
  ELSE LET x == PPCond[i + 1].second
           o1 == AssertThat(Emit32(o, PPCond[i + 1].first - off), x # 0)
       IN  EmitPPCond(Emit32(o1, EmittedTarget(x, i)), PPCond, off, i + 1)

\* lines 560-577
LexTokensEnd(S) ==
  LET S1 == Check(S, S.PPStartCond = <<>>)
      PPCondOff == tell(S1.W.Out)
      o == EmitPPCond(Emit32(S1.W.Out, Len(S.PPCond)), S.PPCond, S.off, 0)
  IN  IF Aborted(S1) THEN S1
      ELSE [S1 EXCEPT !.W.Out = o,
                      !.result = PTHEntry(S.off, PPCondOff),
                      !.pc = IF o.abort THEN @ ELSE "done"]

\* the loop of lines 437-558, from the position of S to its exit
RECURSIVE RunLoop(_)
RunLoop(S) ==
  IF Aborted(S) \/ S.pc = "end" THEN S
  ELSE IF S.pc = "lex" THEN RunLoop(FromNextToken(Fetch(S)))
  ELSE RunLoop(FromNextToken(S))

\* the statements after the loop, if the loop was left by its exit
AfterLoop(S) == IF Aborted(S) THEN S ELSE LexTokensEnd(S)

\* PTHEntry LexTokens(Lexer& L), from its first statement to its return
LexTokens(W, L0) == AfterLoop(RunLoop(LexTokensBegin(W, L0)))

---------------------------------------------------------------------------
(* The sections GeneratePTH writes after the files.                        *)

\* a pool entry written without its terminator
SpellingBytes_noNul(spelling) == spelling

\* EmitBuf(data, data + length); Emit8('\0')
SpellingBytes(spelling) == spelling \o <<0>>

\* the loop of EmitCachedSpellings from entry i on
RECURSIVE EmitSpellings(_, _, _)
EmitSpellings(o, entries, i) ==
  IF i > Len(entries) THEN o
  ELSE EmitSpellings(WriteBytes(o, SpellingBytes(entries[i])), entries, i + 1)

\* Offset EmitCachedSpellings(): [W, ret]
EmitCachedSpellings(W) ==
  [W |-> [W EXCEPT !.Out = EmitSpellings(@, W.StrEntries, 1)], ret |-> tell(W.Out)]

\* calloc(idcount, sizeof(PTHIdKey))
NewIIDMap(n) == [i \in 0..(n - 1) |-> [II |-> NullII, FileOffset |-> 0]]

\* one round of the loop of lines 724-736, for the entry (II, id) of IM:
\* [out, mem, T]
IdTableVisit(o, mem, T, II, id, n) ==
  LET o1 == AssertThat(AssertThat(o, id > 0), id - 1 < n)
      idx == id - 1
      mem1 == [mem EXCEPT ![idx].II = II]
  IN  IF o1.abort THEN [out |-> o1, mem |-> mem, T |-> T]
      ELSE [out |-> o1, mem |-> mem1, T |-> insert(T, idx, id, mem1)]

\* for (i = 0; i < idcount; ++i) Emit32(IIDMap[i].FileOffset), from i on
RECURSIVE EmitIdOffsets(_, _, _, _)
EmitIdOffsets(o, mem, n, i) ==
  IF i >= n THEN o ELSE EmitIdOffsets(Emit32(o, mem[i].FileOffset), mem, n, i + 1)

\* the pair made the other way round
make_pair_swapped(IDOff, StringTableOffset) ==
  [first |-> StringTableOffset, second |-> IDOff]

\* std::make_pair(IDOff, StringTableOffset)
make_pair(IDOff, StringTableOffset) == [first |-> IDOff, second |-> StringTableOffset]

\* lines 744-751, r being what IIOffMap.Emit(Out) left: [out, mem, T, ret]
EmitIdOffsetTable(r, n) ==
  [out |-> EmitIdOffsets(Emit32(r.out, n), r.mem, n, 0), mem |-> r.mem, T |-> r.T,
   ret |-> make_pair(tell(r.out), r.TableOff)]

\* lines 741-751 of EmitIdentifierTable: [out, mem, T, ret]
EmitIdentifierTableEnd(o, mem, T, n) == EmitIdOffsetTable(Emit(T, o, mem), n)

\* the activation of LexTokens held in the variables, and back
Frame ==
  [W |-> Writer, L |-> LT.L, Tok |-> LT.Tok, PPCond |-> LT.PPCond,
   PPStartCond |-> LT.PPStartCond,
   ParsingPreprocessorDirective |-> LT.ParsingPreprocessorDirective, off |-> LT.off,
   pc |-> pc, result |-> LT.result]

Locals(S) ==
  [L |-> S.L, Tok |-> S.Tok, PPCond |-> S.PPCond, PPStartCond |-> S.PPStartCond,
   ParsingPreprocessorDirective |-> S.ParsingPreprocessorDirective,
   off |-> S.off, result |-> S.result]

SetFrame(S) ==
  /\ SetWriter(S.W)
  /\ pc' = S.pc
  /\ LT' = Locals(S)

\* a lexer over the lines given, the whole file or its first lines
NewLexer(lines, fed, ended) == [lines |-> lines, fed |-> fed, ended |-> ended]

\* GeneratePTH before its first statement, reading a SourceManager that holds
\* the n files of the seed
NewGeneratePTH(seed, n) ==
  [seed |-> seed, n |-> n, I |-> 0, PrologueOffset |-> 0, IdTableOff |-> [first |-> 0, second |-> 0],
   SpellingOff |-> 0, FileTableOff |-> 0, todo |-> {}, cached |-> <<>>]

\* neither GeneratePTH nor LexTokens is running
SetIdleLexTokens ==
  /\ PM = NewTable(FileInfo)
  /\ GP = NewGeneratePTH(0, 0)
  /\ LT = [L |-> NewLexer(<<>>, <<>>, TRUE), Tok |-> EofToken(NewLexer(<<>>, <<>>, TRUE)),
           PPCond |-> <<>>, PPStartCond |-> <<>>, ParsingPreprocessorDirective |-> FALSE,
           off |-> 0, result |-> PTHEntry(0, 0)]

---------------------------------------------------------------------------
(* A client of the hash table generator: any number of inserts, then one   *)
(* Emit.  The keys come from one of a few families, fixed at the start.    *)

MaxInserts == 97

\* the sink offset after the magic, the version and the four reserved words
AfterPrologue == 27

HTSeeds == {1, 2, 3, 4}

RECURSIVE Letters(_)
Letters(i) == IF i < 26 THEN <<97 + i>> ELSE Letters(i \div 26) \o <<97 + (i % 26)>>

HTPath(seed, i) ==
  <<47>> \o Letters(IF seed = 3 THEN i % 3 ELSE i) \o (IF seed = 4 THEN <<46, 104>> ELSE <<>>)

HTFileEntry(seed, i) ==
  [Name |-> HTPath(seed, i), Inode |-> 1000 + i, Device |-> 5, FileMode |-> 33188,
   ModificationTime |-> 77 + i, Size |-> 3 * i]

HTInfo(seed) == IF seed = 2 THEN IdInfo ELSE FileInfo

\* the i-th key and data the client passes (i from 0)
HTKey(seed, i) ==
  IF seed = 2 THEN i
  ELSE IF seed = 3 \/ i % 3 = 0 THEN KeyOfFile(HTFileEntry(seed, i))
  ELSE IF i % 3 = 1 THEN KeyOfDir(HTPath(seed, i))
  ELSE KeyOfPath(HTPath(seed, i))

HTData(seed, i) == IF seed = 2 THEN i + 1 ELSE PTHEntry(28 + 16 * i, 40 + 16 * i)

HTInit ==
  /\ pc = "ht"
  /\ htSeed \in HTSeeds
  /\ \E k \in 0..3 : Out = WriteBytes(NewStream, Zeros(AfterPrologue + k))
  /\ HT = NewTable(HTInfo(htSeed))
  /\ IIDMap = <<>>
  /\ TableOff = 0
  /\ htN = 0
  /\ SetIdleWriter
  /\ SetIdleLexTokens

HTInsert ==
  /\ pc = "ht"
  /\ htN < MaxInserts
  /\ LET mem == IF htSeed = 2
                THEN [j \in 0..htN |-> IF j = htN THEN [II |-> Letters(htN), FileOffset |-> 0]
                                       ELSE IIDMap[j]]
                ELSE IIDMap
     IN  /\ IIDMap' = mem
         /\ HT' = insert(HT, HTKey(htSeed, htN), HTData(htSeed, htN), mem)
  /\ htN' = htN + 1
  /\ UNCHANGED <<pc, Out, TableOff, htSeed, writerVars, ret, LT, genVars>>

HTEmit ==
  /\ pc = "ht"
  /\ LET r == Emit(HT, Out, IIDMap)
     IN  /\ Out' = r.out
         /\ IIDMap' = r.mem
         /\ HT' = r.T
         /\ TableOff' = r.TableOff
  /\ pc' = "emitted"
  /\ UNCHANGED <<htSeed, htN, writerVars, ret, LT, genVars>>

HTNext == HTInsert \/ HTEmit

SpecHT == HTInit /\ [][HTNext]_vars

---------------------------------------------------------------------------
(* Properties of the hash table generator.                                 *)

RECURSIVE LeastBuckets(_, _)
LeastBuckets(nb, n) == IF 4 * n < 3 * nb THEN nb ELSE LeastBuckets(2 * nb, n)

\* C1: after n calls of insert on a fresh table, NumEntries = n and
\* NumBuckets is the smallest power of two >= 64 with 4n < 3 NumBuckets.
C1_LoadFactorLaw ==
  /\ HT.NumEntries = htN
  /\ HT.NumBuckets = LeastBuckets(64, htN)
  /\ DOMAIN HT.Buckets = 0..(HT.NumBuckets - 1)

C1_Witness == htN = 96 /\ HT.NumBuckets = 256 /\ pc = "ht"

---------------------------------------------------------------------------
(* A client of the interner and of EmitToken: any sequence of ResolveID    *)
(* and EmitToken calls on a fresh writer.                                  *)

MaxCalls == 4

foo == <<102, 111, 111>>
bar == <<98, 97, 114>>
baz == <<98, 97, 122>>
\* the handle of an identifier that is 65536 characters long
longid == <<108>>

TokHandles == {foo, bar, baz}

Token(k, fl, len, ii, sp, fo) ==
  [Kind |-> k, Flags |-> fl, Length |-> len, II |-> ii, Spelling |-> sp, FileOffset |-> fo]

TokTokens ==
  { Token(tok.identifier, 0, 3, foo, foo, 10),
    Token(tok.identifier, StartOfLine, 3, bar, bar, 300),
    Token(tok.numeric_constant, 2, 2, NullII, <<52, 50>>, 20),
    Token(tok.numeric_constant, StartOfLine, 1, NullII, <<55>>, 70000),
    Token(tok.string_literal, 0, 4, NullII, <<34, 97, 98, 34>>, 33),
    Token(255, 255, 65535, NullII, <<>>, 0),
    Token(tok.eof, 0, 0, NullII, <<>>, 41),
    Token(tok.semi, 0, 1, baz, <<59>>, 5),
    Token(tok.identifier, 0, 65536, longid, longid, 100) }

InRange(T) == T.Kind <= 255 /\ T.Flags <= 255 /\ T.Length <= 65535

CallCount == Len(resolved) + Cardinality({i \in DOMAIN emitted : isLiteral(emitted[i])})

TokInit ==
  /\ pc = "tok"
  /\ Out = NewStream
  /\ SetIdleWriter
  /\ HT = NewTable(FileInfo)
  /\ IIDMap = <<>>
  /\ TableOff = 0
  /\ htSeed = 0
  /\ htN = 0
  /\ SetIdleLexTokens

TokResolveID ==
  /\ pc = "tok"
  /\ CallCount < MaxCalls
  /\ \E II \in TokHandles \cup {NullII} :
       LET r == ResolveID(Writer, II)
       IN  SetWriter(r.W) /\ ret' = [arg |-> II, val |-> r.ret]
  /\ UNCHANGED <<pc, htVars, LT, genVars>>

TokEmitToken ==
  /\ pc = "tok"
  /\ CallCount < MaxCalls
  /\ ~Out.abort
  /\ \E T \in TokTokens : SetWriter(EmitToken(Writer, T))
  /\ UNCHANGED <<pc, htVars, ret, LT, genVars>>

TokNext == TokResolveID \/ TokEmitToken

SpecTok == TokInit /\ [][TokNext]_vars

---------------------------------------------------------------------------
(* A caller of LexTokens on one file.  The file is made of lines of a few  *)
(* shapes and is read by the lexer as it comes: the lines not yet lexed    *)
(* are chosen one at a time, two lines ahead of the loop, which is as far  *)
(* as one pass of the loop reads.                                          *)

MaxLines == 4

\* a raw token: the idx-th token of line n
RawToken(k, sol, sp, n, idx) ==
  [Kind |-> k, Flags |-> IF idx = 1 THEN sol ELSE 2, Length |-> Len(sp), II |-> NullII,
   Spelling |-> sp, FileOffset |-> LineStart(n) + 8 * (idx - 1), Line |-> n]

Hash(n, idx) == RawToken(tok.hash, StartOfLine, <<35>>, n, idx)
Ident(sp, n, idx) == RawToken(tok.identifier, StartOfLine, sp, n, idx)
Number(n, idx) == RawToken(tok.numeric_constant, StartOfLine, <<49>>, n, idx)
HeaderName(n, idx) == RawToken(tok.string_literal, StartOfLine, <<34, 97, 34>>, n, idx)

LineShapes ==
  {"ifdef", "else", "elif", "endif", "endif_junk", "include", "include_bare", "define",
   "null", "hash_number", "hash_foo", "plain", "mid_hash"}

\* the tokens of a line of the given shape standing as line n
LineTokens(shape, n) ==
  CASE shape = "ifdef" -> <<Hash(n, 1), Ident(pp_ifdef, n, 2), Ident(foo, n, 3)>>
    [] shape = "else" -> <<Hash(n, 1), Ident(pp_else, n, 2)>>
    [] shape = "elif" -> <<Hash(n, 1), Ident(pp_elif, n, 2), Number(n, 3)>>
    [] shape = "endif" -> <<Hash(n, 1), Ident(pp_endif, n, 2)>>
    [] shape = "endif_junk" -> <<Hash(n, 1), Ident(pp_endif, n, 2), Ident(bar, n, 3), Number(n, 4)>>
    [] shape = "include" -> <<Hash(n, 1), Ident(pp_include, n, 2), HeaderName(n, 3)>>
    [] shape = "include_bare" -> <<Hash(n, 1), Ident(pp_include, n, 2)>>
    [] shape = "import" -> <<Hash(n, 1), Ident(pp_import, n, 2), HeaderName(n, 3)>>
    [] shape = "define" -> <<Hash(n, 1), Ident(pp_define, n, 2), Ident(foo, n, 3)>>
    [] shape = "null" -> <<Hash(n, 1)>>
    [] shape = "hash_number" -> <<Hash(n, 1), Number(n, 2)>>
    [] shape = "hash_foo" -> <<Hash(n, 1), Ident(foo, n, 2)>>
    [] shape = "plain" -> <<Ident(bar, n, 1), Number(n, 2)>>
    [] shape = "mid_hash" -> <<Ident(bar, n, 1), Hash(n, 2)>>

\* the lexer has in hand all that one pass of the loop can read
Lookahead == LT.L.ended \/ Len(LT.L.lines) >= 2

LexInit ==
  /\ pc = "begin"
  /\ \E k \in 0..1 : Out = WriteBytes(NewStream, Zeros(AfterPrologue + k))
  /\ SetIdleWriter
  /\ PM = NewTable(FileInfo)
  /\ GP = NewGeneratePTH(0, 0)
  /\ LT = [L |-> NewLexer(<<>>, <<>>, FALSE), Tok |-> EofToken(NewLexer(<<>>, <<>>, FALSE)),
           PPCond |-> <<>>, PPStartCond |-> <<>>, ParsingPreprocessorDirective |-> FALSE,
           off |-> 0, result |-> PTHEntry(0, 0)]
  /\ HT = NewTable(FileInfo)
  /\ IIDMap = <<>>
  /\ TableOff = 0
  /\ htSeed = 0
  /\ htN = 0

\* the file has one more line
LexLine ==
  /\ ~Lookahead
  /\ Len(LT.L.fed) < MaxLines
  /\ \E shape \in LineShapes :
       LT' = [LT EXCEPT !.L.lines = Append(@, LineTokens(shape, Len(LT.L.fed) + 1)),
                        !.L.fed = Append(@, shape)]
  /\ UNCHANGED <<pc, Out, htVars, writerVars, ret, genVars>>

\* the file has no more lines
LexLastLine ==
  /\ ~Lookahead
  /\ LT' = [LT EXCEPT !.L.ended = TRUE]
  /\ UNCHANGED <<pc, Out, htVars, writerVars, ret, genVars>>

LexEnter ==
  /\ pc = "begin"
  /\ SetFrame(LexTokensBegin(Writer, LT.L))
  /\ UNCHANGED <<htVars, ret, genVars>>

LexPass ==
  /\ pc = "lex"
  /\ Lookahead
  /\ ~Out.abort
  /\ SetFrame(FromNextToken(Fetch(Frame)))
  /\ UNCHANGED <<htVars, ret, genVars>>

LexPassFromNextToken ==
  /\ pc = "NextToken"
  /\ Lookahead
  /\ ~Out.abort
  /\ SetFrame(FromNextToken(Frame))
  /\ UNCHANGED <<htVars, ret, genVars>>

LexReturn ==
  /\ pc = "end"
  /\ SetFrame(LexTokensEnd(Frame))
  /\ UNCHANGED <<htVars, ret, genVars>>

LexNext ==
  LexLine \/ LexLastLine \/ LexEnter \/ LexPass \/ LexPassFromNextToken \/ LexReturn

SpecLex == LexInit /\ [][LexNext]_vars

---------------------------------------------------------------------------
(* GeneratePTH.  The SourceManager holds the files 0, 1, 2, ... in the     *)
(* order fileinfo_begin() gives them, a few of them or MaxFiles of them;    *)
(* file 1 has a relative path and file 2 has no buffer.  The               *)
(* contents go round four small files, starting at the one the seed names. *)
(* EmitIdentifierTable visits the entries of IM in any order.              *)

MaxFiles == 50

GenSeeds == {0, 1}

\* how many files the SourceManager holds
GenFileCounts == (0..5) \cup {MaxFiles}

\* PTHManager::Version
Version == 1

\* "cfe-pth"
Magic == <<99, 102, 101, 45, 112, 116, 104>>

\* "/a.h", "b.h", "/c.h", ...
GenPath(i) == (IF i = 1 THEN <<>> ELSE <<47>>) \o Letters(i) \o <<46, 104>>

\* the FileEntry of the i-th content cache
GenFileEntry(i) ==
  [Name |-> GenPath(i), Inode |-> 2000 + i, Device |-> 7, FileMode |-> 33188,
   ModificationTime |-> 1000 + i, Size |-> 32 * i]

\* C.getBuffer() of the i-th content cache is not null
GenHasBuffer(i) == i # 2

\* llvm::sys::Path(name).isAbsolute()
isAbsolute(name) == name # <<>> /\ name[1] = 47

GenContents ==
  << <<>>, <<"ifdef", "else", "endif">>, <<"import", "plain">>, <<"plain">> >>

\* Lexer L(FID, SM, LOpts) over the i-th file
GenLexer(seed, i) ==
  LET shapes == GenContents[((seed + i) % Len(GenContents)) + 1]
  IN  NewLexer([n \in 1..Len(shapes) |-> LineTokens(shapes[n], n)], shapes, TRUE)

GenInit ==
  /\ pc = "start"
  /\ Out = NewStream
  /\ SetIdleWriter
  /\ PM = NewTable(FileInfo)
  /\ \E seed \in GenSeeds, n \in GenFileCounts : GP = NewGeneratePTH(seed, n)
  /\ LT = [L |-> NewLexer(<<>>, <<>>, TRUE), Tok |-> EofToken(NewLexer(<<>>, <<>>, TRUE)),
           PPCond |-> <<>>, PPStartCond |-> <<>>, ParsingPreprocessorDirective |-> FALSE,
           off |-> 0, result |-> PTHEntry(0, 0)]
  /\ HT = NewTable(IdInfo)
  /\ IIDMap = <<>>
  /\ TableOff = 0
  /\ htSeed = 0
  /\ htN = 0

\* lines 597-602
GenPrologue ==
  /\ pc = "start"
  /\ LET o == Emit32(WriteBytes(Out, Magic), Version)
     IN  /\ Out' = WriteBytes(o, Zeros(4 * 4))
         /\ GP' = [GP EXCEPT !.PrologueOffset = tell(o)]
  /\ pc' = "files"
  /\ UNCHANGED <<htVars, IM, idcount, CachedStrs, CurStrOffset, StrEntries, emitted, resolved,
                 ret, PM, LT>>

\* PM.insert(FE, LexTokens(L)), S being the activation LexTokens left
GenCache(FE, S) ==
  /\ SetWriter(S.W)
  /\ LT' = Locals(S)
  /\ PM' = IF Aborted(S) THEN PM ELSE insert(PM, KeyOfFile(FE), S.result, <<>>)
  /\ GP' = [GP EXCEPT !.I = @ + 1,
                      !.cached = IF Aborted(S) THEN @
                                 ELSE Append(@, [FE |-> FE, entry |-> S.result])]

\* the buffer is not looked at
Skipped_byPathOnly(Name, B) == ~isAbsolute(Name)

\* if (!P.isAbsolute()) continue; if (!B) continue; B: the buffer is there
Skipped(Name, B) == ~isAbsolute(Name) \/ ~B

\* one round of the loop of lines 609-625
GenFile ==
  /\ pc = "files"
  /\ ~Out.abort
  /\ GP.I < GP.n
  /\ IF Skipped(GenFileEntry(GP.I).Name, GenHasBuffer(GP.I))
     THEN /\ GP' = [GP EXCEPT !.I = @ + 1]
          /\ UNCHANGED <<Out, IM, idcount, CachedStrs, CurStrOffset, StrEntries, emitted,
                         resolved, PM, LT>>
     ELSE GenCache(GenFileEntry(GP.I), LexTokens(Writer, GenLexer(GP.seed, GP.I)))
  /\ UNCHANGED <<pc, htVars, ret>>

\* EmitIdentifierTable, lines 718-721, once the files are done
GenIdTableBegin ==
  /\ pc = "files"
  /\ ~Out.abort
  /\ GP.I = GP.n
  /\ IIDMap' = NewIIDMap(idcount)
  /\ HT' = NewTable(IdInfo)
  /\ GP' = [GP EXCEPT !.todo = DOMAIN IM]
  /\ pc' = "idtable"
  /\ UNCHANGED <<Out, TableOff, htSeed, htN, writerVars, ret, PM, LT>>

\* the sink, the PTHIdKey array and IIOffMap as r holds them
SetIdTable(r) ==
  /\ Out' = r.out
  /\ IIDMap' = r.mem
  /\ HT' = r.T

\* EmitIdentifierTable, one round of the loop of lines 724-736
GenIdTableVisit ==
  /\ pc = "idtable"
  /\ ~Out.abort
  /\ \E II \in GP.todo :
       /\ SetIdTable(IdTableVisit(Out, IIDMap, HT, II, IM[II], idcount))
       /\ GP' = [GP EXCEPT !.todo = @ \ {II}]
  /\ UNCHANGED <<pc, TableOff, htSeed, htN, writerVars, ret, PM, LT>>

SetIdTableOff(r) ==
  /\ SetIdTable(r)
  /\ TableOff' = r.ret.second
  /\ GP' = [GP EXCEPT !.IdTableOff = r.ret]

\* EmitIdentifierTable, lines 741-751, and line 628
GenIdTableEmit ==
  /\ pc = "idtable"
  /\ ~Out.abort
  /\ GP.todo = {}
  /\ SetIdTableOff(EmitIdentifierTableEnd(Out, IIDMap, HT, idcount))
  /\ pc' = "spellings"
  /\ UNCHANGED <<htSeed, htN, writerVars, ret, PM, LT>>

\* line 631
GenSpellings ==
  /\ pc = "spellings"
  /\ ~Out.abort
  /\ SetWriter(EmitCachedSpellings(Writer).W)
  /\ GP' = [GP EXCEPT !.SpellingOff = EmitCachedSpellings(Writer).ret]
  /\ pc' = "filetable"
  /\ UNCHANGED <<htVars, ret, PM, LT>>

SetFileTable(r) ==
  /\ Out' = r.out
  /\ PM' = r.T
  /\ GP' = [GP EXCEPT !.FileTableOff = r.TableOff]

\* line 634
GenFileTable ==
  /\ pc = "filetable"
  /\ ~Out.abort
  /\ SetFileTable(Emit(PM, Out, <<>>))
  /\ pc' = "patch"
  /\ UNCHANGED <<htVars, writerVars, ret, LT>>

\* lines 637-641
GenPatchPrologue ==
  /\ pc = "patch"
  /\ ~Out.abort
  /\ Out' = Emit32(Emit32(Emit32(Emit32(seek(Out, GP.PrologueOffset), GP.IdTableOff.first),
                                 GP.IdTableOff.second), GP.FileTableOff), GP.SpellingOff)
  /\ pc' = "finished"
  /\ UNCHANGED <<htVars, writerVars, ret, genVars, LT>>

Next ==
  \/ GenPrologue \/ GenFile \/ GenIdTableBegin \/ GenIdTableVisit \/ GenIdTableEmit
  \/ GenSpellings \/ GenFileTable \/ GenPatchPrologue

Spec == GenInit /\ [][Next]_vars

---------------------------------------------------------------------------
(* Reading the sink back.                                                  *)

U16At(buf, off) == buf[off + 1] + 256 * buf[off + 2]

\* a little-endian u32 below 2^31
U32At(buf, off) == U16At(buf, off) + 65536 * U16At(buf, off + 2)

\* the i-th 12-byte token record of a stream that starts at offset base
RecordOff(base, i) == base + 12 * (i - 1)

\* (w & 0xFF, (w >> 8) & 0xFF, w >> 16) of the first word of a record
DecodedKind(buf, r) == U16At(buf, r) % 256
DecodedFlags(buf, r) == U16At(buf, r) \div 256
DecodedLength(buf, r) == U16At(buf, r + 2)

RECURSIVE FirstSeenUpTo(_, _)
FirstSeenUpTo(s, n) ==
  IF n = 0 THEN <<>>
  ELSE IF \E j \in 1..(n - 1) : s[j] = s[n] THEN FirstSeenUpTo(s, n - 1)
  ELSE Append(FirstSeenUpTo(s, n - 1), s[n])

\* the distinct elements of s in the order of their first occurrence
FirstSeen(s) == FirstSeenUpTo(s, Len(s))

IndexIn(s, x) == CHOOSE k \in 1..Len(s) : s[k] = x

Range(s) == {s[k] : k \in DOMAIN s}

\* sum of (length + 1) over the first n entries
RECURSIVE PoolBytes(_, _)
PoolBytes(entries, n) ==
  IF n = 0 THEN 0 ELSE PoolBytes(entries, n - 1) + Len(entries[n]) + 1

SeenHandles == FirstSeen(SelectSeq(resolved, LAMBDA h : h # NullII))

LiteralsEmitted == SelectSeq(emitted, isLiteral)

---------------------------------------------------------------------------
(* Properties of the interner, the spelling pool and EmitToken.            *)

\* C4: the IDs given to non-null handles are exactly 1..idcount, the k-th
\* distinct handle seen has ID k, a handle resolved again gets the ID it got
\* first (so do the tokens written: word1 of a non-literal token is the rank
\* of its handle, 0 for none), and resolving null returns 0 and changes
\* neither idcount nor the map.
C4_DenseFirstSeenIDs ==
  /\ idcount = Len(SeenHandles)
  /\ DOMAIN IM = Range(SeenHandles)
  /\ \A k \in 1..Len(SeenHandles) : IM[SeenHandles[k]] = k
  /\ {IM[h] : h \in DOMAIN IM} = 1..idcount
  /\ ret.val = IF ret.arg = NullII THEN 0 ELSE IndexIn(SeenHandles, ret.arg)
  /\ \A i \in DOMAIN emitted :
       ~isLiteral(emitted[i]) =>
         U32At(Out.buf, RecordOff(0, i) + 4) =
           IF emitted[i].II = NullII THEN 0 ELSE IndexIn(SeenHandles, emitted[i].II)

\* foo bar foo were resolved (IDs 1, 2, 1) and null was resolved last
C4_Witness ==
  /\ Len(resolved) = 4
  /\ resolved[1] = resolved[3] /\ resolved[1] # resolved[2]
  /\ resolved[1] # NullII /\ resolved[2] # NullII
  /\ ret.arg = NullII /\ idcount = 2
  /\ Len(emitted) = 3

\* C6: every distinct literal spelling has one pool entry; its offset is the
\* sum of (length + 1) over the entries first seen before it, is below
\* CurStrOffset, and is the word1 of every token with that spelling, however
\* many tokens came after the first; CurStrOffset is the sum over all entries.
C6_SpellingPool ==
  /\ StrEntries = FirstSeen([i \in DOMAIN LiteralsEmitted |-> LiteralsEmitted[i].Spelling])
  /\ DOMAIN CachedStrs = Range(StrEntries)
  /\ \A k \in DOMAIN StrEntries :
       /\ CachedStrs[StrEntries[k]].valid
       /\ CachedStrs[StrEntries[k]].off = PoolBytes(StrEntries, k - 1)
       /\ CachedStrs[StrEntries[k]].off < CurStrOffset
  /\ CurStrOffset = PoolBytes(StrEntries, Len(StrEntries))
  /\ \A i \in DOMAIN emitted :
       isLiteral(emitted[i]) =>
         U32At(Out.buf, RecordOff(0, i) + 4) =
           PoolBytes(StrEntries, IndexIn(StrEntries, emitted[i].Spelling) - 1)

\* three spellings are pooled and the first was met again after the third
C6_Witness ==
  /\ Len(StrEntries) = 3
  /\ Len(LiteralsEmitted) = 4
  /\ LiteralsEmitted[4].Spelling = StrEntries[1]
  /\ CurStrOffset = 10

\* C9: every EmitToken call appends 12 bytes; for a token with kind <= 255,
\* flags <= 255 and length <= 65535 the first word decodes to its kind, flags
\* and length, the second word is its pool offset if it is a literal and else
\* its identifier's ID (0 for none), the third its file offset.
C9_TokenRecord ==
  /\ Len(Out.buf) = 12 * Len(emitted)
  /\ Out.pos = Len(Out.buf)
  /\ \A i \in DOMAIN emitted :
       LET T == emitted[i]
           r == RecordOff(0, i)
       IN  InRange(T) =>
             /\ DecodedKind(Out.buf, r) = T.Kind
             /\ DecodedFlags(Out.buf, r) = T.Flags
             /\ DecodedLength(Out.buf, r) = T.Length
             /\ U32At(Out.buf, r + 4) =
                  IF isLiteral(T) THEN CachedStrs[T.Spelling].off
                  ELSE IF T.II = NullII THEN 0 ELSE IM[T.II]
             /\ U32At(Out.buf, r + 8) = T.FileOffset

\* a token with the largest fields, a literal and an identifier were written
C9_Witness ==
  /\ \E i \in DOMAIN emitted :
       emitted[i].Kind = 255 /\ emitted[i].Flags = 255 /\ emitted[i].Length = 65535
  /\ \E i \in DOMAIN emitted : isLiteral(emitted[i]) /\ CachedStrs[emitted[i].Spelling].off > 0
  /\ \E i \in DOMAIN emitted : emitted[i].Kind = tok.identifier /\ IM[emitted[i].II] = 1

\* C10: an EmitToken call with a kind > 255, flags > 255 or a length > 65535
\* fails loudly: once such a token has been passed, the writer has stopped on
\* a failed assert and no first word with a truncated field is in the sink.
C10_OversizedFieldFailsLoudly ==
  \A i \in DOMAIN emitted :
    ~InRange(emitted[i]) =>
      /\ Out.abort
      /\ Len(Out.buf) < RecordOff(0, i) + 4

---------------------------------------------------------------------------
(* Properties of LexTokens, stated against the lines of the file.          *)

\* what a line is to the conditional structure of the file
CondKind(shape) ==
  IF shape = "ifdef" THEN "open"
  ELSE IF shape \in {"else", "elif"} THEN "mid"
  ELSE IF shape \in {"endif", "endif_junk"} THEN "close"
  ELSE "none"

\* the conditional directives among the lines, in order
Conditionals(lines) == SelectSeq(lines, LAMBDA sh : CondKind(sh) # "none")

\* the nesting depth after the first n directives of D, -1 once an #elif,
\* #else or #endif has come at depth 0
RECURSIVE DepthAfter(_, _)
DepthAfter(D, n) ==
  IF n = 0 THEN 0
  ELSE LET d == DepthAfter(D, n - 1)
           k == CondKind(D[n])
       IN  IF d < 0 THEN d
           ELSE IF k = "open" THEN d + 1
           ELSE IF d = 0 THEN -1
           ELSE IF k = "mid" THEN d ELSE d - 1

\* opens less closes among D[a..b]
RECURSIVE Nest(_, _, _)
Nest(D, a, b) ==
  IF a > b THEN 0
  ELSE Nest(D, a, b - 1) + (IF CondKind(D[b]) = "open" THEN 1
                            ELSE IF CondKind(D[b]) = "close" THEN -1 ELSE 0)

\* D[j] is the next #elif, #else or #endif after D[i] at the depth of D[i]
IsPeer(D, i, j) ==
  /\ i < j /\ j <= Len(D)
  /\ CondKind(D[j]) \in {"mid", "close"}
  /\ Nest(D, i + 1, j - 1) = 0
  /\ \A k \in (i + 1)..(j - 1) :
       ~(CondKind(D[k]) \in {"mid", "close"} /\ Nest(D, i + 1, k - 1) = 0)

\* the emitted PPCond table of the file just lexed: its count and the target
\* of its entry i (from 0)
PPCondCount == U32At(Out.buf, LT.result.PPCondData)
PPCondTarget(i) == U32At(Out.buf, LT.result.PPCondData + 4 + 8 * i + 4)

\* C2: when LexTokens has completed, the emitted PPCond table has one entry
\* per conditional directive of the file; the entry i of an #if, #ifdef,
\* #ifndef, #elif or #else has a target j with i < j < count that is the next
\* #elif, #else or #endif at the same depth, and is not 0; the entry of an
\* #endif has target 0.
C2_PPCondTargets ==
  pc = "done" =>
    LET D == Conditionals(LT.L.fed)
    IN  /\ PPCondCount = Len(D)
        /\ \A i \in 0..(PPCondCount - 1) :
             IF CondKind(D[i + 1]) = "close" THEN PPCondTarget(i) = 0
             ELSE /\ PPCondTarget(i) # 0
                  /\ i < PPCondTarget(i) /\ PPCondTarget(i) < PPCondCount
                  /\ IsPeer(D, i + 1, PPCondTarget(i) + 1)

\* #if A, #if B, #endif, #endif was lexed and its targets are 3, 2, 0, 0
C2_Witness ==
  /\ pc = "done"
  /\ LT.L.fed = <<"ifdef", "ifdef", "endif", "endif">>
  /\ PPCondCount = 4
  /\ <<PPCondTarget(0), PPCondTarget(1), PPCondTarget(2), PPCondTarget(3)>> = <<3, 2, 0, 0>>

\* the lines of the file up to the line of the token last lexed
LinesMet ==
  SubSeq(LT.L.fed, 1, IF LT.Tok.Line < Len(LT.L.fed) THEN LT.Tok.Line ELSE Len(LT.L.fed))

\* C3: LexTokens stops on a failed assert exactly when the conditional
\* directives of the file are unbalanced: it has stopped on an assert only if
\* an #endif, #elif or #else was met at depth 0 or the end of the file was
\* reached at a depth above 0, and it has returned only if neither happened.
C3_AssertIffUnbalanced ==
  /\ Out.abort =>
       LET D == Conditionals(LinesMet)
       IN  \/ DepthAfter(D, Len(D)) < 0
           \/ LT.Tok.Kind = tok.eof /\ DepthAfter(D, Len(D)) > 0
  /\ pc = "done" =>
       LET D == Conditionals(LT.L.fed) IN DepthAfter(D, Len(D)) = 0

---------------------------------------------------------------------------
(* The reader's side of the artifact, and the properties of GeneratePTH.   *)

\* the k-th of the four prologue words (k from 0): id_table_off,
\* id_string_table_off, file_table_off, spelling_off
PrologueWord(buf, k) == U32At(buf, Len(Magic) + 4 + 4 * k)

\* the bytes of buf at offset o are the string s followed by a NUL
CStringAtIs(buf, o, str) ==
  /\ o + Len(str) + 1 <= Len(buf)
  /\ \A k \in 1..Len(str) : buf[o + k] = str[k]
  /\ buf[o + Len(str) + 1] = 0

\* the items left in a bucket payload, k of them from offset p on, whose
\* stored hash is hashBytes and whose key after its kind byte is keyBytes:
\* the offsets of their data
RECURSIVE ScanBucket(_, _, _, _, _)
ScanBucket(buf, p, k, hashBytes, keyBytes) ==
  IF k = 0 THEN {}
  ELSE LET keylen == U16At(buf, p + 4)
           datalen == buf[p + 7]
           hit == /\ SubSeq(buf, p + 1, p + 4) = hashBytes
                  /\ keylen = Len(keyBytes) + 1
                  /\ SubSeq(buf, p + 9, p + 7 + keylen) = keyBytes
       IN  (IF hit THEN {p + 7 + keylen} ELSE {})
             \cup ScanBucket(buf, p + 7 + keylen + datalen, k - 1, hashBytes, keyBytes)

\* the lookup of a path in the file table at tableOff
ReaderLookup(buf, tableOff, path) ==
  LET NumBuckets == U32At(buf, tableOff)
      idx == BucketIndex(BernsteinHash(path), NumBuckets)
      bucketOff == U32At(buf, tableOff + 8 + 4 * idx)
  IN  IF bucketOff = 0 THEN {}
      ELSE ScanBucket(buf, bucketOff + 2, U16At(buf, bucketOff),
                      WordBytes(BernsteinHash(path)), CStr(path))

\* C5: after GeneratePTH the table at id_table_off starts with idcount, and
\* for every ID i in 1..idcount its slot i-1 holds the offset of the name of
\* the identifier that was given i, stored as a NUL-terminated string; this
\* in whatever order EmitIdentifierTable visited the identifiers.
C5_IdOffsetTable ==
  pc = "finished" =>
    LET idoff == PrologueWord(Out.buf, 0)
    IN  /\ U32At(Out.buf, idoff) = idcount
        /\ idcount = Len(SeenHandles)
        /\ \A i \in 1..idcount :
             CStringAtIs(Out.buf, U32At(Out.buf, idoff + 4 * i), SeenHandles[i])

\* six identifiers were written, two of them in one bucket, and the one with
\* the larger ID was visited first
C5_Witness ==
  /\ pc = "finished"
  /\ idcount = 6
  /\ \E b \in DOMAIN HT.Buckets :
       /\ HT.Buckets[b].length = 2
       /\ HT.Buckets[b].head[1].data < HT.Buckets[b].head[2].data

\* C7: after GeneratePTH, for every literal token written, the bytes at
\* spelling_off + (the word1 of its record) are its spelling followed by a
\* NUL; and EmitCachedSpellings has written exactly CurStrOffset bytes.
C7_SpellingSection ==
  /\ pc = "finished" =>
       \A i \in DOMAIN emitted :
         isLiteral(emitted[i]) =>
           CStringAtIs(Out.buf,
                       PrologueWord(Out.buf, 3) + U32At(Out.buf, emitted[i].At + 4),
                       emitted[i].Spelling)
  /\ pc = "filetable" => tell(Out) - GP.SpellingOff = CurStrOffset

\* two spellings are pooled, and a literal of a later file has the second
C7_Witness ==
  /\ pc = "finished"
  /\ Len(StrEntries) = 2
  /\ \E i, j \in DOMAIN emitted :
       /\ i < j
       /\ isLiteral(emitted[i]) /\ emitted[j].Spelling = emitted[i].Spelling
       /\ isLiteral(emitted[j]) /\ U32At(Out.buf, emitted[j].At + 4) > 0

\* C8: after GeneratePTH, the lookup of the path of any cached file in the
\* file table finds exactly one item; its token_off and ppcond_off are those
\* of the PTHEntry LexTokens returned for the file, and lie in the artifact.
C8_FileLookup ==
  pc = "finished" =>
    \A n \in DOMAIN GP.cached :
      LET hits == ReaderLookup(Out.buf, PrologueWord(Out.buf, 2), GP.cached[n].FE.Name)
      IN  /\ Cardinality(hits) = 1
          /\ \A d \in hits :
               /\ U32At(Out.buf, d) = GP.cached[n].entry.TokenData
               /\ U32At(Out.buf, d + 4) = GP.cached[n].entry.PPCondData
               /\ U32At(Out.buf, d) < Len(Out.buf)
               /\ U32At(Out.buf, d + 4) < Len(Out.buf)

\* 48 files or more were cached, the file map was resized, and two paths
\* share a bucket
C8_Witness ==
  /\ pc = "finished"
  /\ Len(GP.cached) >= 48
  /\ PM.NumBuckets = 128
  /\ \E b \in DOMAIN PM.Buckets : PM.Buckets[b].length >= 2

(***************************************************************************)
(* The artifact as GeneratePTH leaves it                                   *)
(***************************************************************************)

\* the bytes of buf at offsets lo .. hi-1
Bytes(buf, lo, hi) == SubSeq(buf, lo + 1, hi)

\* the size of the prologue: the magic, the version and four offsets
PrologueSize == Len(Magic) + 4 + 4 * 4

\* C11: after GeneratePTH bytes 0..7 are "cfe-pth", bytes 7..11 the version,
\* and bytes 11..27 hold in this order the offset of the ID -> offset table,
\* the TableOff of the name -> ID hash table, the TableOff of the file map
\* and the offset of the spelling pool, each within PrologueSize .. the file
\* size; the step that patches them changes no byte outside [11,27) and
\* keeps the file length.
C11_Prologue ==
  /\ [](pc = "finished" =>
          /\ Bytes(Out.buf, 0, 7) = <<99, 102, 101, 45, 112, 116, 104>>
          /\ U32At(Out.buf, 7) = Version
          /\ U32At(Out.buf, 11) = GP.IdTableOff.first
          /\ U32At(Out.buf, 15) = GP.IdTableOff.second
          /\ U32At(Out.buf, 19) = GP.FileTableOff
          /\ U32At(Out.buf, 23) = GP.SpellingOff
          /\ U32At(Out.buf, GP.IdTableOff.first) = idcount
          /\ U32At(Out.buf, GP.IdTableOff.second) = HT.NumBuckets
          /\ U32At(Out.buf, GP.IdTableOff.second + 4) = idcount
          /\ U32At(Out.buf, GP.FileTableOff) = PM.NumBuckets
          /\ U32At(Out.buf, GP.FileTableOff + 4) = Len(GP.cached)
          /\ \A k \in 0..3 : /\ U32At(Out.buf, 11 + 4 * k) >= PrologueSize
                             /\ U32At(Out.buf, 11 + 4 * k) <= Len(Out.buf))
  /\ [][pc = "patch" =>
          /\ Len(Out'.buf) = Len(Out.buf)
          /\ \A i \in 0..(Len(Out.buf) - 1) :
               i \notin 11..26 => Out'.buf[i + 1] = Out.buf[i + 1]]_vars

\* GeneratePTH has returned for 48 cached files with six identifiers and
\* two pooled spellings, and the four offsets differ
C11_Witness ==
  /\ pc = "finished"
  /\ Len(GP.cached) = 48
  /\ idcount = 6
  /\ Len(StrEntries) = 2
  /\ Cardinality({U32At(Out.buf, 11 + 4 * k) : k \in 0..3}) = 4

\* the end of the PPCond table of the last cached file: where the per-file
\* part of the artifact ends
FilesEnd(buf, cached) ==
  IF cached = <<>> THEN PrologueSize
  ELSE LET ppcd == cached[Len(cached)].entry.PPCondData
       IN  ppcd + 4 + 8 * U32At(buf, ppcd)

\* C12: in every step of GeneratePTH but the patch of the prologue the sink
\* writes at its end and only grows, no written byte changing; the patch
\* comes after the file map, which ends the file, and rewrites only
\* [11,27). In the finished artifact the name -> ID hash table follows the
\* per-file part, the ID -> offset table follows it at once, the spelling
\* pool follows that at once and the file map ends the file, so that
\* string_hash_off < id_table_off < spelling_off <= file_table_off.
C12_ForwardWrites ==
  /\ [][IF pc = "patch"
        THEN /\ Len(Out.buf) = GP.FileTableOff + 8 + 4 * PM.NumBuckets
             /\ Out.pos = Len(Out.buf)
             /\ Out'.pos = GP.PrologueOffset + 16
             /\ Len(Out'.buf) = Len(Out.buf)
             /\ Bytes(Out'.buf, 0, 11) = Bytes(Out.buf, 0, 11)
             /\ Bytes(Out'.buf, 27, Len(Out.buf)) = Bytes(Out.buf, 27, Len(Out.buf))
        ELSE /\ Out.pos = Len(Out.buf)
             /\ Out'.pos = Len(Out'.buf)
             /\ Out'.pos >= Out.pos
             /\ Bytes(Out'.buf, 0, Len(Out.buf)) = Out.buf]_vars
  /\ [](pc = "finished" =>
          LET id_table_off == U32At(Out.buf, 11)
              string_hash_off == U32At(Out.buf, 15)
              file_table_off == U32At(Out.buf, 19)
              spelling_off == U32At(Out.buf, 23)
          IN  /\ FilesEnd(Out.buf, GP.cached) <= string_hash_off
              /\ id_table_off = string_hash_off + 8 + 4 * U32At(Out.buf, string_hash_off)
              /\ spelling_off = id_table_off + 4 + 4 * U32At(Out.buf, id_table_off)
              /\ spelling_off + CurStrOffset <= file_table_off
              /\ Len(Out.buf) = file_table_off + 8 + 4 * U32At(Out.buf, file_table_off)
              /\ string_hash_off < id_table_off
              /\ id_table_off < spelling_off
              /\ spelling_off <= file_table_off)

\* every section of a finished artifact has content: files with tokens and
\* conditionals, identifiers, pooled spellings and a file map with entries
C12_Witness ==
  /\ pc = "finished"
  /\ Len(GP.cached) = 48
  /\ FilesEnd(Out.buf, GP.cached) > PrologueSize
  /\ idcount > 0
  /\ CurStrOffset > 0
  /\ U32At(Out.buf, 23) < U32At(Out.buf, 19)

\* where the part of the n-th cached file starts: the end of the one before
FileStart(buf, cached, n) == FilesEnd(buf, SubSeq(cached, 1, n - 1))

\* from PrologueSize on the artifact holds, for each cached file in turn,
\* zero bytes up to the next multiple of 4, then token records only, then
\* the file's PPCond table
FilesTiled(buf, cached) ==
  \A n \in DOMAIN cached :
    LET p == FileStart(buf, cached, n)
        td == cached[n].entry.TokenData
        ppcd == cached[n].entry.PPCondData
    IN  /\ td - p \in 0..3
        /\ td % 4 = 0
        /\ \A i \in p..(td - 1) : buf[i + 1] = 0
        /\ td < ppcd
        /\ (ppcd - td) % 12 = 0
        /\ \A k \in 0..((ppcd - td) \div 12 - 1) :
             \E i \in DOMAIN emitted : emitted[i].At = td + 12 * k
        /\ ppcd + 4 + 8 * U32At(buf, ppcd) <= Len(buf)

\* the bytes of the spelling pool: every entry followed by a NUL
RECURSIVE PoolContents(_, _)
PoolContents(entries, n) ==
  IF n = 0 THEN <<>> ELSE PoolContents(entries, n - 1) \o entries[n] \o <<0>>

\* C13 as stated: in every artifact [27, spelling_off) holds only the pad
\* bytes, token streams and PPCond tables of the files, and the spelling
\* pool lies before the identifier tables: spelling_off < id_table_off.
C13_SpellingPoolBeforeIdTables ==
  pc = "finished" =>
    /\ FilesTiled(Out.buf, GP.cached)
    /\ FilesEnd(Out.buf, GP.cached) = U32At(Out.buf, 23)
    /\ U32At(Out.buf, 23) < U32At(Out.buf, 11)

\* C13, amended: the per-file pad bytes, token streams and PPCond tables
\* fill the artifact from 27 up to the point where EmitIdentifierTable
\* starts writing; the identifier tables follow, and the spelling pool lies
\* after them, from spelling_off = id_table_off + 4 + 4 * idcount on, for
\* CurStrOffset bytes: id_table_off < spelling_off.
C13_SpellingPoolAfterIdTables ==
  /\ pc = "idtable" =>
       /\ FilesTiled(Out.buf, GP.cached)
       /\ FilesEnd(Out.buf, GP.cached) = Len(Out.buf)
  /\ pc = "finished" =>
       LET id_table_off == U32At(Out.buf, 11)
           spelling_off == U32At(Out.buf, 23)
       IN  /\ FilesTiled(Out.buf, GP.cached)
           /\ FilesEnd(Out.buf, GP.cached) <= U32At(Out.buf, 15)
           /\ id_table_off < spelling_off
           /\ spelling_off = id_table_off + 4 + 4 * idcount
           /\ Bytes(Out.buf, spelling_off, spelling_off + CurStrOffset)
                = PoolContents(StrEntries, Len(StrEntries))

\* an artifact of 48 files with conditionals, whose pool holds two spellings
C13_Witness ==
  /\ pc = "finished"
  /\ Len(GP.cached) = 48
  /\ Len(StrEntries) = 2
  /\ \E n \in DOMAIN GP.cached : U32At(Out.buf, GP.cached[n].entry.PPCondData) = 3

\* the entries among the first n of the source manager that have an absolute
\* path and a buffer, in order
RECURSIVE Cacheable(_)
Cacheable(n) ==
  IF n = 0 THEN <<>>
  ELSE Cacheable(n - 1) \o
         (IF GenPath(n - 1)[1] = 47 /\ GenHasBuffer(n - 1)
          THEN <<GenFileEntry(n - 1)>> ELSE <<>>)

\* C14: the round of GeneratePTH for an entry whose path is not absolute or
\* whose buffer is missing changes neither the sink, the file map, the
\* interner nor the spelling pool; the files cached are at every moment the
\* entries met so far that have an absolute path and a buffer, in order, and
\* NumEntries of the file map, in memory and as written, is their number.
C14_SkippedEntries ==
  /\ [][(/\ pc = "files"
         /\ GP.I < GP.n
         /\ (GenPath(GP.I)[1] # 47 \/ ~GenHasBuffer(GP.I)))
        => /\ UNCHANGED <<Out, PM, IM, idcount, CachedStrs, CurStrOffset, StrEntries,
                          emitted, resolved>>
           /\ GP'.cached = GP.cached
           /\ GP'.I = GP.I + 1]_vars
  /\ [](/\ [k \in DOMAIN GP.cached |-> GP.cached[k].FE] = Cacheable(GP.I)
        /\ PM.NumEntries = Len(Cacheable(GP.I))
        /\ pc = "finished" => U32At(Out.buf, U32At(Out.buf, 19) + 4) = Len(Cacheable(GP.n)))

\* an entry with a relative path and one without a buffer have been passed
\* by, after a file with identifiers was cached, and files were cached since
C14_Witness ==
  /\ pc = "finished"
  /\ GP.n = 5
  /\ ~isAbsolute(GenFileEntry(1).Name)
  /\ ~GenHasBuffer(2)
  /\ PM.NumEntries = 3

\* the translation unit is one file, cached, whose lexer yields only EOF
OnlyEOF ==
  /\ GP.n = 1
  /\ ~Skipped(GenFileEntry(0).Name, GenHasBuffer(0))
  /\ GenLexer(GP.seed, 0).lines = <<>>

\* the offsets of the data of the only file of the unit in the file table
OnlyFileData == ReaderLookup(Out.buf, U32At(Out.buf, 19), GenFileEntry(0).Name)

\* the artifact but for its token stream: a PPCond table of count 0 right
\* after the stream, no identifier, one file, and a file map whose only
\* payload starts at spelling_off
EmptyUnitSections(ppcond_off) ==
  LET id_table_off == U32At(Out.buf, 11)
      file_table_off == U32At(Out.buf, 19)
      spelling_off == U32At(Out.buf, 23)
      slots == {U32At(Out.buf, file_table_off + 8 + 4 * b) :
                  b \in 0..(U32At(Out.buf, file_table_off) - 1)}
  IN  /\ U32At(Out.buf, ppcond_off) = 0
      /\ U32At(Out.buf, id_table_off) = 0
      /\ spelling_off = id_table_off + 4
      /\ U32At(Out.buf, file_table_off + 4) = 1
      /\ slots = {0, spelling_off}

\* C15 as stated: the artifact of a unit of one file whose lexer yields only
\* EOF has a token stream of length zero, no token record being written
\* (ppcond_off = token_off), a PPCond table of count 0, an empty spelling
\* pool, idcount = 0 and a file map of one entry.
C15_EmptyUnitNoRecord ==
  (pc = "finished" /\ OnlyEOF) =>
    /\ emitted = <<>>
    /\ Cardinality(OnlyFileData) = 1
    /\ \A d \in OnlyFileData :
         /\ U32At(Out.buf, d + 4) = U32At(Out.buf, d)
         /\ EmptyUnitSections(U32At(Out.buf, d + 4))

\* C15, amended: the token stream of that artifact is the one record of the
\* EOF token, the only record written (ppcond_off = token_off + 12); the
\* PPCond table has count 0, the spelling pool is empty, idcount = 0 and the
\* file map has one entry.
C15_EmptyUnitOneRecord ==
  (pc = "finished" /\ OnlyEOF) =>
    /\ Len(emitted) = 1
    /\ Cardinality(OnlyFileData) = 1
    /\ \A d \in OnlyFileData :
         LET token_off == U32At(Out.buf, d)
             ppcond_off == U32At(Out.buf, d + 4)
         IN  /\ token_off = PrologueSize + 1
             /\ ppcond_off = token_off + 12
             /\ DecodedKind(Out.buf, token_off) = tok.eof
             /\ DecodedLength(Out.buf, token_off) = 0
             /\ U32At(Out.buf, token_off + 4) = 0
             /\ EmptyUnitSections(ppcond_off)

\* GeneratePTH has returned for a unit of one empty file
C15_Witness ==
  /\ pc = "finished"
  /\ OnlyEOF
  /\ Len(GP.cached) = 1
  /\ LT.Tok.Kind = tok.eof

\* C16: when a round of GeneratePTH caches a file, p being the offset of the
\* sink when LexTokens starts, the round writes (4 - p mod 4) mod 4 zero
\* bytes at p and the token stream right after them, at a multiple of 4; and
\* the TableOff of both hash tables, as returned and as written into the
\* prologue, is a multiple of 4.
C16_Alignment ==
  /\ [][(pc = "files" /\ Len(GP'.cached) > Len(GP.cached)) =>
          LET p == tell(Out)
              token_off == GP'.cached[Len(GP'.cached)].entry.TokenData
          IN  /\ token_off = p + ((4 - (p % 4)) % 4)
              /\ token_off % 4 = 0
              /\ token_off - p \in 0..3
              /\ Bytes(Out'.buf, p, token_off) = Zeros(token_off - p)
              /\ DecodedKind(Out'.buf, token_off) = emitted'[Len(emitted) + 1].Kind]_vars
  /\ [](pc \in {"spellings", "filetable", "patch", "finished"} =>
          /\ GP.IdTableOff.second % 4 = 0
          /\ U32At(Out.buf, GP.IdTableOff.second) = HT.NumBuckets)
  /\ [](pc \in {"patch", "finished"} =>
          /\ GP.FileTableOff % 4 = 0
          /\ U32At(Out.buf, GP.FileTableOff) = PM.NumBuckets)
  /\ [](pc = "finished" => U32At(Out.buf, 15) % 4 = 0 /\ U32At(Out.buf, 19) % 4 = 0)

\* the first file was cached at offset 27 behind one pad byte, a later one at
\* a multiple of 4 behind none, and both tables were written
C16_Witness ==
  /\ pc = "finished"
  /\ Len(GP.cached) >= 2
  /\ GP.cached[1].entry.TokenData = PrologueSize + 1
  /\ FileStart(Out.buf, GP.cached, 2) = GP.cached[2].entry.TokenData
  /\ HT.NumEntries > 0
  /\ PM.NumEntries > 0

---------------------------------------------------------------------------
(* The token stream of LexTokens against the lines of the file.            *)

\* directive mode is entered for the line: a # at the start of the line
\* followed by an identifier
EntersDirectiveMode(ts) ==
  /\ Len(ts) >= 2
  /\ ts[1].Kind = tok.hash
  /\ isAtStartOfLine(ts[1])
  /\ ts[2].Kind = tok.identifier

\* the tokens of the line that go to the stream: all of them, but after
\* #endif none
WrittenOf(ts) ==
  IF EntersDirectiveMode(ts) /\ ts[2].Spelling = pp_endif THEN SubSeq(ts, 1, 2) ELSE ts

\* what stands for a token of the stream: EndOfDirective for an
\* end-of-directive token, else the offset of the token in its file
EndOfDirective == <<TRUE, 0>>

Standing(T) == IF T.Kind = tok.eom THEN EndOfDirective ELSE <<FALSE, T.FileOffset>>

\* the stream the first n lines of the file call for: the tokens of every
\* line in order, one end-of-directive token after those of every line that
\* enters directive mode
RECURSIVE StreamOfLines(_, _)
StreamOfLines(fed, n) ==
  IF n = 0 THEN <<>>
  ELSE LET ts == LineTokens(fed[n], n)
           written == WrittenOf(ts)
       IN  StreamOfLines(fed, n - 1)
             \o [i \in DOMAIN written |-> Standing(written[i])]
             \o (IF EntersDirectiveMode(ts) THEN <<EndOfDirective>> ELSE <<>>)

\* C17: when LexTokens returns, the stream holds the tokens of every line in
\* order with exactly one end-of-directive token after the last written
\* token of every line that entered directive mode, before the first token
\* of the next line or the EOF token, and no other end-of-directive token;
\* each has kind eom, no StartOfLine flag and identifier ID 0; and directive
\* mode is off.
C17_OneEomPerDirective ==
  (pc = "done" /\ ~Out.abort) =>
    /\ [i \in DOMAIN emitted |-> Standing(emitted[i])]
         = StreamOfLines(LT.L.fed, Len(LT.L.fed)) \o <<Standing(EofToken(LT.L))>>
    /\ \A i \in DOMAIN emitted :
         emitted[i].Kind = tok.eom =>
           /\ DecodedKind(Out.buf, emitted[i].At) = tok.eom
           /\ DecodedFlags(Out.buf, emitted[i].At) % 2 = 0
           /\ U32At(Out.buf, emitted[i].At + 4) = 0
    /\ ~LT.ParsingPreprocessorDirective

\* the tokens of the stream that are no end-of-directive tokens and stand at
\* the given offset of the file
WrittenAt(fo) == {i \in DOMAIN emitted : emitted[i].Kind # tok.eom /\ emitted[i].FileOffset = fo}

\* C18: when LexTokens returns, for every #endif line of the file the stream
\* holds its # and its endif and no other token of the line; right after the
\* endif comes an end-of-directive token, and right after that the first
\* token of the next line, or the EOF token, which is in the stream once.
C18_EndifLine ==
  (pc = "done" /\ ~Out.abort) =>
    \A n \in DOMAIN LT.L.fed :
      LET ts == LineTokens(LT.L.fed[n], n)
      IN  (EntersDirectiveMode(ts) /\ ts[2].Spelling = pp_endif) =>
            /\ \A k \in DOMAIN ts :
                 Cardinality(WrittenAt(ts[k].FileOffset)) = IF k <= 2 THEN 1 ELSE 0
            /\ Cardinality(WrittenAt(LineStart(n + 1))) = 1
            /\ \A i \in WrittenAt(ts[2].FileOffset) :
                 /\ emitted[i - 1].FileOffset = ts[1].FileOffset
                 /\ i + 2 <= Len(emitted)
                 /\ emitted[i + 1].Kind = tok.eom
                 /\ DecodedKind(Out.buf, emitted[i + 1].At) = tok.eom
                 /\ emitted[i + 2].Kind # tok.eom
                 /\ emitted[i + 2].FileOffset = LineStart(n + 1)
                 /\ emitted[i + 2].At = emitted[i].At + 24

\* LexTokens has returned for a file with an #endif followed on its line by
\* two tokens and then by a line, and with an #endif that ends the file
C18_Witness ==
  /\ pc = "done"
  /\ ~Out.abort
  /\ Len(LT.L.fed) = 4
  /\ LT.L.fed[2] = "endif_junk"
  /\ LT.L.fed[4] = "endif"

---------------------------------------------------------------------------
(* The table Emit writes, read back from the sink.                         *)

\* the name the hash of the j-th inserted key is computed from (j from 0)
InsertedName(j) == IF htSeed = 2 THEN Letters(j) ELSE HTPath(htSeed, j)

\* hash & (nb - 1) for the j-th inserted key, nb a power of two up to 2^16
InsertedBucket(j, nb) == BernsteinHash(InsertedName(j)).lo % nb

\* the i-th bucket slot of the table at tableOff
Slot(buf, tableOff, i) == U32At(buf, tableOff + 8 + 4 * i)

\* the sum of the leading u16 of the payloads of buckets lo .. hi-1
RECURSIVE SumCounts(_, _, _, _)
SumCounts(buf, tableOff, lo, hi) ==
  IF hi <= lo THEN 0
  ELSE IF hi = lo + 1
       THEN (IF Slot(buf, tableOff, lo) = 0 THEN 0 ELSE U16At(buf, Slot(buf, tableOff, lo)))
  ELSE LET mid == (lo + hi) \div 2
       IN  SumCounts(buf, tableOff, lo, mid) + SumCounts(buf, tableOff, mid, hi)

\* C19: after any sequence of inserts, Emit writes at TableOff NumBuckets and
\* NumEntries and then exactly NumBuckets slots, which end the output; slot
\* i is 0 when no inserted key has hash & (NumBuckets-1) = i and else the
\* offset of a payload whose leading u16 is the number of inserted keys
\* with that index; the payloads lie before TableOff in increasing bucket
\* index, and their counts sum to NumEntries.
C19_EmittedTable ==
  pc = "emitted" =>
    LET nb == U32At(Out.buf, TableOff)
        at == [j \in 0..(htN - 1) |-> InsertedBucket(j, nb)]
        count == [i \in 0..(nb - 1) |-> Cardinality({j \in DOMAIN at : at[j] = i})]
        slot == [i \in 0..(nb - 1) |-> Slot(Out.buf, TableOff, i)]
    IN  /\ nb = HT.NumBuckets
        /\ U32At(Out.buf, TableOff + 4) = HT.NumEntries
        /\ HT.NumEntries = htN
        /\ Len(Out.buf) = TableOff + 8 + 4 * nb
        /\ \A i \in 0..(nb - 1) :
             IF count[i] = 0 THEN slot[i] = 0
             ELSE /\ slot[i] >= AfterPrologue
                  /\ slot[i] < TableOff
                  /\ U16At(Out.buf, slot[i]) = count[i]
        /\ \A i, j \in 0..(nb - 1) :
             (i < j /\ slot[i] # 0 /\ slot[j] # 0) => slot[i] < slot[j]
        /\ SumCounts(Out.buf, TableOff, 0, nb) = htN

\* a table of 97 distinct keys was written after two resizes, with empty
\* buckets and with a bucket of more than one item
C19_Witness ==
  /\ pc = "emitted"
  /\ htN = 97
  /\ htSeed = 4
  /\ U32At(Out.buf, TableOff) = 256
  /\ \E j \in 0..96 : InsertedBucket(j, 256) >= 128
  /\ \E i, j \in 0..255 :
       /\ Slot(Out.buf, TableOff, i) = 0
       /\ Slot(Out.buf, TableOff, j) # 0
       /\ U16At(Out.buf, Slot(Out.buf, TableOff, j)) > 1

\* which insert (from 0) wrote the item at offset p of a payload, and the
\* offset of the item after it: the identifier table stores the ID i + 1 as
\* data, a file entry stores token_off = 28 + 16 i, and a directory or
\* missing-path entry is known by its path alone
ItemAt(buf, p) ==
  LET keylen == U16At(buf, p + 4)
  IN  IF htSeed = 2
      THEN [index |-> U32At(buf, p + 6 + keylen) - 1, next |-> p + 6 + keylen + 4]
      ELSE LET datalen == buf[p + 7]
               path == Bytes(buf, p + 8, p + 6 + keylen)
           IN  [index |-> IF datalen > 0 THEN (U32At(buf, p + 7 + keylen) - 28) \div 16
                          ELSE CHOOSE j \in 0..(htN - 1) : HTPath(htSeed, j) = path,
                next |-> p + 7 + keylen + datalen]

\* the inserts that wrote the k items from offset p on, in the order written
RECURSIVE ItemsFrom(_, _, _)
ItemsFrom(buf, p, k) ==
  IF k = 0 THEN <<>>
  ELSE <<ItemAt(buf, p).index>> \o ItemsFrom(buf, ItemAt(buf, p).next, k - 1)

\* the inserts that wrote the payload of bucket i, in the order written
BucketOrder(buf, tableOff, i) ==
  IF Slot(buf, tableOff, i) = 0 THEN <<>>
  ELSE ItemsFrom(buf, Slot(buf, tableOff, i) + 2, U16At(buf, Slot(buf, tableOff, i)))

\* how often a table of nb buckets was doubled to reach size buckets
RECURSIVE Doublings(_, _)
Doublings(nb, size) == IF nb >= size THEN 0 ELSE 1 + Doublings(2 * nb, size)

\* the resizes that came after insert j (from 0) had linked its item
ResizesAfter(j) == Doublings(LeastBuckets(64, j + 1), LeastBuckets(64, htN))

\* C20 as stated: within every bucket of the emitted table the items appear
\* in reverse insertion order: of two items of a bucket the one inserted
\* later is written first.
C20_ReverseInsertionOrder ==
  pc = "emitted" =>
    \A i \in 0..(U32At(Out.buf, TableOff) - 1) :
      LET s == BucketOrder(Out.buf, TableOff, i)
      IN  \A a, b \in DOMAIN s : a < b => s[a] > s[b]

\* C20, amended: every resize reverses the order of the items a bucket
\* holds, so of two items of a bucket of the emitted table the one inserted
\* later is written first exactly when the table was resized an even number
\* of times after that insert: always so in a table never resized.
C20_OrderFlipsOnResize ==
  pc = "emitted" =>
    \A i \in 0..(U32At(Out.buf, TableOff) - 1) :
      LET s == BucketOrder(Out.buf, TableOff, i)
      IN  /\ Len(s) = Cardinality({s[a] : a \in DOMAIN s})
          /\ \A a \in DOMAIN s : s[a] \in 0..(htN - 1) /\ InsertedBucket(s[a], U32At(Out.buf, TableOff)) = i
          /\ \A a, b \in DOMAIN s :
               a < b => (s[a] > s[b] <=> ResizesAfter(IF s[a] > s[b] THEN s[a] ELSE s[b]) % 2 = 0)

\* a table was written after two resizes in which one bucket holds items
\* inserted before the first resize, between the two and after the second
C20_Witness ==
  /\ pc = "emitted"
  /\ htN = 97
  /\ \E i \in 0..255 :
       LET s == BucketOrder(Out.buf, TableOff, i)
       IN  \E a, b, c \in DOMAIN s : s[a] < 47 /\ s[b] \in 47..94 /\ s[c] >= 95

\* the offsets of the k items from offset p on, stepping by their lengths
RECURSIVE ItemOffsetsFrom(_, _, _)
ItemOffsetsFrom(buf, p, k) ==
  IF k = 0 THEN {} ELSE {p} \cup ItemOffsetsFrom(buf, ItemAt(buf, p).next, k - 1)

\* the offsets of the items of the emitted table
EmittedItems ==
  UNION {IF Slot(Out.buf, TableOff, i) = 0 THEN {}
         ELSE ItemOffsetsFrom(Out.buf, Slot(Out.buf, TableOff, i) + 2,
                              U16At(Out.buf, Slot(Out.buf, TableOff, i))) :
           i \in 0..(U32At(Out.buf, TableOff) - 1)}

\* the item at offset p of a file map holds after its hash and lengths the
\* kind tag and the path of the key of the insert that wrote it, and after
\* them nulBytes bytes before its data: token_off first for a file entry,
\* or else whatever follows the item
FileKeyWritten(buf, p, nulBytes) ==
  LET j == ItemAt(buf, p).index
      V == HTKey(htSeed, j)
      path == HTPath(htSeed, j)
      after == p + 7 + 1 + Len(path) + nulBytes
  IN  /\ buf[p + 7 + 1] = V.Kind
      /\ Bytes(buf, p + 8, p + 8 + Len(path)) = path
      /\ V.Kind = IsFE => U32At(buf, after) = HTData(htSeed, j).TokenData
      /\ ItemAt(buf, p).next = after + buf[p + 7]

\* C21 as stated: for every file-map item EmitKey writes one kind-tag byte
\* and then exactly strlen(path) path bytes and no NUL, so that the data of
\* the item, or the next item, starts right after the last path byte.
C21_KeyWithoutNul ==
  (pc = "emitted" /\ htSeed # 2) =>
    \A p \in EmittedItems : FileKeyWritten(Out.buf, p, 0)

\* C21, amended: for every file-map item EmitKey writes one kind-tag byte,
\* then exactly strlen(path) path bytes and then the NUL that ends the path:
\* strlen(path) + 2 bytes, the key length written before them.
C21_KeyWithNul ==
  (pc = "emitted" /\ htSeed # 2) =>
    \A p \in EmittedItems :
      LET path == HTPath(htSeed, ItemAt(Out.buf, p).index)
      IN  /\ U16At(Out.buf, p + 4) = Len(path) + 2
          /\ Out.buf[p + 8 + Len(path) + 1] = 0
          /\ FileKeyWritten(Out.buf, p, 1)

\* a file map with file, directory and missing-path entries of paths of two
\* lengths was written
C21_Witness ==
  /\ pc = "emitted"
  /\ htSeed = 1
  /\ htN = 30
  /\ Cardinality(EmittedItems) = 30
  /\ {Out.buf[p + 8] : p \in EmittedItems} = {IsFE, IsDE, IsNoExist}
  /\ {U16At(Out.buf, p + 4) : p \in EmittedItems} = {4, 5}

\* line n starts with a # that is not followed on the line by an identifier
MalformedDirective(ts) ==
  /\ ts[1].Kind = tok.hash
  /\ isAtStartOfLine(ts[1])
  /\ ~EntersDirectiveMode(ts)

\* LexTokens has stopped on the assert that follows the lexing of the token
\* after a # at the start of a line, that token being no identifier
StoppedAfterHash ==
  /\ Out.abort
  /\ emitted # <<>>
  /\ Last(emitted).Kind = tok.hash
  /\ isAtStartOfLine(Last(emitted))
  /\ LT.Tok.Kind # tok.identifier

\* C22: when the token after a # at the start of a line is no identifier, be
\* it the EOF token or a token that starts a line, LexTokens does not stop on
\* an assert; and when it returns, the # and that token stand one after the
\* other in the stream with no end-of-directive token after them, directive
\* mode is off, and the PPCond table has exactly the entries of the
\* conditional directives of the file, those of later lines included.
C22_HashWithoutIdentifier ==
  /\ ~StoppedAfterHash
  /\ (pc = "done" /\ ~Out.abort) =>
       /\ PPCondCount = Len(Conditionals(LT.L.fed))
       /\ ~LT.ParsingPreprocessorDirective
       /\ \A n \in DOMAIN LT.L.fed :
            LET ts == LineTokens(LT.L.fed[n], n)
            IN  MalformedDirective(ts) =>
                  /\ Cardinality(WrittenAt(ts[1].FileOffset)) = 1
                  /\ \A i \in WrittenAt(ts[1].FileOffset) :
                       /\ i + 1 <= Len(emitted)
                       /\ emitted[i + 1].Kind # tok.eom
                       /\ emitted[i + 1].FileOffset
                            = IF Len(ts) >= 2 THEN ts[2].FileOffset ELSE LineStart(n + 1)
                       /\ i + 2 <= Len(emitted) => emitted[i + 2].Kind # tok.eom

\* the token the next pass of the loop starts with and the one after it, the
\* first being a # at the start of a line and the second the name of an
\* #elif, #else or #endif
BackpatchAhead ==
  LET line == Head(LT.L.lines)
      first == IF pc = "lex" THEN line[1] ELSE LT.Tok
      second == IF pc = "lex" THEN line[2] ELSE line[1]
  IN  /\ pc \in {"lex", "NextToken"}
      /\ ~Out.abort
      /\ Lookahead
      /\ LT.L.lines # <<>>
      /\ Len(line) >= (IF pc = "lex" THEN 2 ELSE 1)
      /\ first.Kind = tok.hash /\ isAtStartOfLine(first)
      /\ second.Kind = tok.identifier /\ ~isAtStartOfLine(second)
      /\ second.Spelling \in {pp_elif, pp_else, pp_endif}

\* C23: at every point of LexTokens between two passes of its loop the
\* start-stack holds strictly increasing indices below PPCond.size(); an
\* entry of PPCond has target 0 exactly when its index is on the stack; an
\* entry off the stack has a target above its index, or equal to it exactly
\* when it is the entry of an #endif. So a pass that backpatches with the
\* stack non-empty does not stop on an assert, and neither does the writing
\* of the table when the stack is empty.
C23_StartStack ==
  /\ [](LET stack == LT.PPStartCond
            D == Conditionals(LT.L.fed)
        IN  /\ \A a, b \in DOMAIN stack : a < b => stack[a] < stack[b]
            /\ \A a \in DOMAIN stack : stack[a] \in 0..(Len(LT.PPCond) - 1)
            /\ Len(LT.PPCond) <= Len(D)
            /\ \A i \in 0..(Len(LT.PPCond) - 1) :
                 LET target == LT.PPCond[i + 1].second
                 IN  /\ target = 0 <=> (\E a \in DOMAIN stack : stack[a] = i)
                     /\ target # 0 =>
                          /\ target >= i
                          /\ target = i <=> CondKind(D[i + 1]) = "close")
  /\ [][(BackpatchAhead /\ LT.PPStartCond # <<>>) => ~Out'.abort]_vars
  /\ [][(pc = "end" /\ ~Out.abort /\ LT.PPStartCond = <<>>) => ~Out'.abort /\ pc' = "done"]_vars

\* two conditionals are open, the inner one after an #else of the outer
\* one whose #ifdef is patched
C23_Witness ==
  /\ ~Out.abort
  /\ LT.PPStartCond = <<1, 2>>
  /\ Len(LT.PPCond) = 3
  /\ LT.PPCond[1].second = 1
  /\ pc = "lex"

\* the item at offset p of the identifier table is whole: its key length is
\* that of a name with its NUL, the name is that of the insert whose ID the
\* 4 bytes after the key hold, and the hash is that of the name
IdItemWhole(buf, p) ==
  /\ p + 6 <= Len(buf)
  /\ p + 6 + U16At(buf, p + 4) + 4 <= Len(buf)
  /\ LET keylen == U16At(buf, p + 4)
         j == U32At(buf, p + 6 + keylen) - 1
     IN  /\ j \in 0..(htN - 1)
         /\ Bytes(buf, p + 6, p + 6 + keylen) = Letters(j) \o <<0>>
         /\ Bytes(buf, p, p + 4) = WordBytes(BernsteinHash(Letters(j)))

\* the item at offset p of the file map is whole: its key is a kind tag and
\* a path with its NUL, the hash is that of the path, the data length is 34
\* for a file and 0 otherwise, and the data of a file are the two offsets
\* and the five stat fields of an insert of that path
FileItemWhole(buf, p) ==
  /\ p + 7 <= Len(buf)
  /\ p + 7 + U16At(buf, p + 4) + buf[p + 7] <= Len(buf)
  /\ LET keylen == U16At(buf, p + 4)
         datalen == buf[p + 7]
         kind == buf[p + 8]
         path == Bytes(buf, p + 8, p + 6 + keylen)
         d == p + 7 + keylen
     IN  /\ keylen >= 2
         /\ datalen = IF kind = IsFE THEN 34 ELSE 0
         /\ buf[p + 7 + keylen] = 0
         /\ \A c \in DOMAIN path : path[c] # 0
         /\ Bytes(buf, p, p + 4) = WordBytes(BernsteinHash(path))
         /\ \E j \in 0..(htN - 1) :
              /\ HTPath(htSeed, j) = path
              /\ HTKey(htSeed, j).Kind = kind
              /\ kind = IsFE =>
                   /\ U32At(buf, d) = 28 + 16 * j
                   /\ U32At(buf, d + 4) = 40 + 16 * j
                   /\ U32At(buf, d + 8) = 1000 + j
                   /\ U32At(buf, d + 12) = 5
                   /\ U16At(buf, d + 16) = 33188
                   /\ U32At(buf, d + 18) = 77 + j /\ U32At(buf, d + 22) = 0
                   /\ U32At(buf, d + 26) = 3 * j /\ U32At(buf, d + 30) = 0

\* where the k items from offset p on end when each is whole and the next is
\* reached by the lengths alone; -1 when one of them is not whole
RECURSIVE ItemsEnd(_, _, _)
ItemsEnd(buf, p, k) ==
  IF k = 0 THEN p
  ELSE IF htSeed = 2
       THEN (IF IdItemWhole(buf, p)
             THEN ItemsEnd(buf, p + 6 + U16At(buf, p + 4) + 4, k - 1) ELSE 0 - 1)
       ELSE (IF FileItemWhole(buf, p)
             THEN ItemsEnd(buf, p + 7 + U16At(buf, p + 4) + buf[p + 7], k - 1) ELSE 0 - 1)

\* C24: in the table Emit wrote, with either trait, stepping by the written
\* key and data lengths from the first item of a bucket leads from each item
\* to the next one, every item being whole, and after the last item to the
\* payload of the next bucket, or for the last bucket to the at most 3 pad
\* bytes before TableOff; the data length is 34 for a file entry, 0 for a
\* directory or missing path, and an identifier has 4 bytes of data.
C24_LengthsMatchBytes ==
  pc = "emitted" =>
    LET nb == U32At(Out.buf, TableOff)
        slot == [i \in 0..(nb - 1) |-> Slot(Out.buf, TableOff, i)]
    IN  \A i \in 0..(nb - 1) :
          slot[i] # 0 =>
            LET later == {slot[j] : j \in (i + 1)..(nb - 1)} \ {0}
                end == ItemsEnd(Out.buf, slot[i] + 2, U16At(Out.buf, slot[i]))
            IN  IF later # {} THEN \A o \in later : end <= o /\ end \in later
                ELSE /\ end >= 0
                     /\ TableOff - end \in 0..3
                     /\ Bytes(Out.buf, end, TableOff) = Zeros(TableOff - end)

\* a file map of 97 entries of the three kinds and of paths of two lengths
\* was written; so was an identifier table of 97 names
C24_Witness ==
  /\ pc = "emitted"
  /\ htN = 97
  /\ \/ htSeed = 2
     \/ /\ htSeed = 4
        /\ {Out.buf[p + 8] : p \in EmittedItems} = {IsFE, IsDE, IsNoExist}

\* the hash offset of entry i (from 0) of the emitted PPCond table of the
\* file just lexed, relative to the start of its token stream
PPCondHashOff(i) == U32At(Out.buf, LT.result.PPCondData + 4 + 8 * i)

\* C25: when LexTokens has completed for a file, ppcond_off - token_off is
\* 12 times the number of tokens written for it; exactly one record of the
\* stream is an EOF token, the last one; and the hash offset of every entry
\* of the PPCond table is a multiple of 12 below ppcond_off - token_off, is
\* the offset of the record of a # token, and is above that of the entry
\* before it.
C25_StreamShape ==
  pc = "done" =>
    LET token_off == LT.result.TokenData
        size == LT.result.PPCondData - token_off
        n == size \div 12
    IN  /\ size = 12 * Len(emitted)
        /\ n >= 1
        /\ \A i \in 1..n :
             DecodedKind(Out.buf, RecordOff(token_off, i)) = tok.eof <=> i = n
        /\ \A i \in 0..(PPCondCount - 1) :
             /\ PPCondHashOff(i) % 12 = 0
             /\ PPCondHashOff(i) < size
             /\ DecodedKind(Out.buf, token_off + PPCondHashOff(i)) = tok.hash
             /\ i > 0 => PPCondHashOff(i) > PPCondHashOff(i - 1)

\* LexTokens has completed for a file of four lines whose PPCond table has
\* three entries, the first of them for a # that is not the first token
C25_Witness ==
  /\ pc = "done"
  /\ Len(LT.L.fed) = 4
  /\ PPCondCount = 3
  /\ PPCondHashOff(0) > 0

====
